---------------------------- MODULE Spec2Model ----------------------------
(***************************************************************************)
(* Model of the .env loader of auto_vcs (src/src/env_loader.c).            *)
(*                                                                         *)
(* A C string is a sequence of one-character strings.  The process         *)
(* environment is a function from the names that are set to their values.  *)
(* The file is the sequence of its lines, without line terminators; fgets  *)
(* hands a line back with its "\n".                                        *)
(***************************************************************************)
EXTENDS Integers, Sequences, FiniteSets, TLC

VARIABLES
    env,          \* the process environment (getenv / setenv)
    file_exists,  \* whether the .env file exists on disk
    file,         \* the lines of the .env file
    tty,          \* isatty(fileno(stdin))
    pc,           \* position of the running call
    lineno,       \* load_dotenv: lineno
    vars_set,     \* load_dotenv: vars_set
    added,        \* interactive_create_entries: added
    status,       \* value returned by the last load_dotenv call
    f_open,       \* load_dotenv: the read handle f is open
    fw_open,      \* interactive_create_entries: the append handle fw is open
    stdin_reads,  \* number of fgets(stdin) calls made so far
    faults,       \* number of failed allocations, setenv calls and writes so far
    loads,        \* number of load_dotenv calls started
    hist,         \* history of the current call (see HistInit)
    arg,          \* argument of the pure function under study
    res,          \* its result
    fpc,          \* "in" before the function is applied, then its name
    heap,         \* the arrays get_env has returned: block |-> "live" or "freed"
    term,         \* the terminal and core.c's record of it (see TermAtRest)
    menu,         \* show_menu: its count and selected, and the last key (see MenuAtRest)
    fsm           \* main and the state functions: position, current_state, arrays (see FsmAtRest)

\* the state of the callers of the loader and of the terminal
progVars == <<heap, term, menu, fsm>>

vars == <<env, file_exists, file, tty, pc, lineno, vars_set, added, status,
          f_open, fw_open, stdin_reads, faults, loads, hist, arg, res, fpc,
          progVars>>

loaderVars == <<file_exists, file, tty, pc, lineno, vars_set, added, status,
                f_open, fw_open, stdin_reads, faults, loads, hist>>

\* the local flags of a terminal that matter here
Flags == {"ECHO", "ICANON", "ISIG", "IEXTEN"}

\* a terminal with local flags lflag before core.c has touched it: termios is
\* what the terminal has, orig_termios and raw_mode_enabled are core.c's
\* statics, cursor and atexit what the escape codes and atexit() have set
TermAtRest(lflag) ==
    [termios |-> lflag, orig_termios |-> {}, raw_mode_enabled |-> FALSE,
     cursor |-> "shown", atexit |-> FALSE]

\* show_menu is not running: active is TRUE while its loop runs, press is the
\* bytes of the last key pressed, key what get_key made of them, ret its result
MenuAtRest ==
    [active |-> FALSE, count |-> 0, selected |-> 0, press |-> <<>>, key |-> 0,
     ret |-> 0]

\* the state of a process before main has run
\* char **p = NULL, with its count
NoArray == [block |-> 0, count |-> 0]

\* main before its first statement; from and returned record the last state
\* function that returned, exits the calls of state_exit
FsmAtRest ==
    [pc |-> "main", current_state |-> 0, usernames |-> NoArray, emails |-> NoArray,
     urls |-> NoArray, repo_names |-> NoArray, from |-> 0, returned |-> FALSE,
     exits |-> 0, path |-> "none"]

ProgAtRest ==
    /\ heap = <<>>
    /\ term = TermAtRest(Flags)
    /\ menu = MenuAtRest
    /\ fsm = FsmAtRest

---------------------------------------------------------------------------
(* Characters and strings *)

DQ == "\""
SQ == "'"
BS == "\\"
NL == "\n"
CR == "\r"
SP == " "
TAB == "\t"
FF == "\f"

LINE_MAX == 4096

\* isspace() of <ctype.h> in the C locale, on the characters the model uses
isspace(c) == c \in {SP, TAB, NL, CR, FF}

Min(a, b) == IF a < b THEN a ELSE b

\* the sequences over S of length at most n
SeqsUpTo(S, n) == UNION {[1..k -> S] : k \in 0..n}

\* the suffix of s that starts at index p (the C pointer s + p - 1)
From(s, p) == SubSeq(s, p, Len(s))

\* index of the first character at or after p that is not whitespace, or Len(s)+1
RECURSIVE SkipSpace(_, _)
SkipSpace(s, p) ==
    IF p <= Len(s) /\ isspace(s[p]) THEN SkipSpace(s, p + 1) ELSE p

\* index of the last character at or before e that is not whitespace, stopping at lo
RECURSIVE BackSpace(_, _, _)
BackSpace(s, e, lo) ==
    IF e > lo /\ isspace(s[e]) THEN BackSpace(s, e - 1, lo) ELSE e

\* strchr(s, c) as an index: the first i with s[i] = c, or 0 for NULL
RECURSIVE strchr_from(_, _, _)
strchr_from(s, c, p) ==
    IF p > Len(s) THEN 0
    ELSE IF s[p] = c THEN p
    ELSE strchr_from(s, c, p + 1)

strchr(s, c) == strchr_from(s, c, 1)

trim_inplace(s) ==
    LET start == SkipSpace(s, 1) IN
    IF start > Len(s) THEN <<>>
    ELSE SubSeq(s, start, BackSpace(s, Len(s), start))

\* strncpy(buf, line, LINE_MAX - 1); buf[LINE_MAX - 1] = '\0'
strncpy_line(s) == SubSeq(s, 1, Min(Len(s), LINE_MAX - 1))

\* the loops that drop trailing '\n' and '\r'
RECURSIVE strip_eol(_)
strip_eol(s) ==
    IF Len(s) > 0 /\ s[Len(s)] \in {NL, CR}
    THEN strip_eol(SubSeq(s, 1, Len(s) - 1))
    ELSE s

---------------------------------------------------------------------------
(* The process environment *)

EmptyEnv == [n \in {} |-> <<>>]

\* the null pointer: a value that is no string
NULL == <<"NULL">>

\* getenv(name): the value, or NULL

getenv(e, name) == IF name \in DOMAIN e THEN e[name] ELSE NULL

\* setenv(key, value, overwrite) when it succeeds
setenv(e, key, value, overwrite) ==
    IF key \in DOMAIN e /\ overwrite = 0 THEN e
    ELSE [n \in DOMAIN e \cup {key} |-> IF n = key THEN value ELSE e[n]]

\* a variant that keeps the value of a name that is already set
set_env_var_keep(e, key, value) == setenv(e, key, value, 0)

\* a variant that appends the new value to the one the name has
set_env_var_merge(e, key, value) ==
    setenv(e, key, (IF key \in DOMAIN e THEN e[key] ELSE <<>>) \o value, 1)

set_env_var(e, key, value) == setenv(e, key, value, 1)

---------------------------------------------------------------------------
(* expand_vars *)

\* while (*q && *q != '}') q++;
RECURSIVE ScanClose(_, _)
ScanClose(in, q) ==
    IF q <= Len(in) /\ in[q] # "}" THEN ScanClose(in, q + 1) ELSE q

\* a variant that scans the substituted value again
RECURSIVE ExpandLoopRescan(_, _, _, _)
ExpandLoopRescan(in, p, out, e) ==
    IF p > Len(in) THEN out
    ELSE IF in[p] = "$" /\ p + 1 <= Len(in) /\ in[p + 1] = "{"
              /\ ScanClose(in, p + 2) <= Len(in)
         THEN LET q == ScanClose(in, p + 2)
                  got == getenv(e, SubSeq(in, p + 2, q - 1))
                  val == IF got = NULL THEN <<>> ELSE got
              IN  ExpandLoopRescan(val \o From(in, q + 1), 1, out, e)
         ELSE ExpandLoopRescan(in, p + 1, Append(out, in[p]), e)

\* a variant that drops a "${" that is never closed
RECURSIVE ExpandLoopDropOpen(_, _, _, _)
ExpandLoopDropOpen(in, p, out, e) ==
    IF p > Len(in) THEN out
    ELSE IF in[p] = "$" /\ p + 1 <= Len(in) /\ in[p + 1] = "{"
         THEN LET q == ScanClose(in, p + 2)
                  got == getenv(e, SubSeq(in, p + 2, q - 1))
                  val == IF got = NULL THEN <<>> ELSE got
              IN  IF q <= Len(in)
                  THEN ExpandLoopDropOpen(in, q + 1, out \o val, e)
                  ELSE ExpandLoopDropOpen(in, p + 2, out, e)
         ELSE ExpandLoopDropOpen(in, p + 1, Append(out, in[p]), e)

\* the while (*p) loop: p is the read index, out the output so far
RECURSIVE ExpandLoop(_, _, _, _)
ExpandLoop(in, p, out, e) ==
    IF p > Len(in) THEN out
    ELSE IF in[p] = "$" /\ p + 1 <= Len(in) /\ in[p + 1] = "{"
              /\ ScanClose(in, p + 2) <= Len(in)
         THEN LET q == ScanClose(in, p + 2)
                  got == getenv(e, SubSeq(in, p + 2, q - 1))
                  val == IF got = NULL THEN <<>> ELSE got
              IN  ExpandLoop(in, q + 1, out \o val, e)
         ELSE ExpandLoop(in, p + 1, Append(out, in[p]), e)

expand_vars_rescan(in, e) == ExpandLoopRescan(in, 1, <<>>, e)

expand_vars_dropopen(in, e) == ExpandLoopDropOpen(in, 1, <<>>, e)

\* the result when no allocation fails
expand_vars(in, e) == ExpandLoop(in, 1, <<>>, e)

---------------------------------------------------------------------------
(* parse_value *)

\* the quoted branch: p is the index after the opening quote
RECURSIVE QuotedLoop(_, _, _, _)
QuotedLoop(raw, p, quote, buf) ==
    IF p > Len(raw) \/ raw[p] = quote \/ Len(buf) >= LINE_MAX - 1 THEN buf
    ELSE IF raw[p] = BS /\ p + 1 <= Len(raw)
         THEN QuotedLoop(raw, p + 2, quote, Append(buf, raw[p + 1]))
         ELSE QuotedLoop(raw, p + 1, quote, Append(buf, raw[p]))

\* a variant that keeps the backslash of an escaped character
RECURSIVE QuotedLoopKeepBS(_, _, _, _)
QuotedLoopKeepBS(raw, p, quote, buf) ==
    IF p > Len(raw) \/ raw[p] = quote \/ Len(buf) >= LINE_MAX - 1 THEN buf
    ELSE IF raw[p] = BS /\ p + 1 <= Len(raw)
         THEN QuotedLoopKeepBS(raw, p + 2, quote, buf \o <<BS, raw[p + 1]>>)
         ELSE QuotedLoopKeepBS(raw, p + 1, quote, Append(buf, raw[p]))

parse_quoted_keepbs(raw, p) == QuotedLoopKeepBS(raw, p + 1, raw[p], <<>>)

\* p is the index of the opening quote
parse_quoted(raw, p) == QuotedLoop(raw, p + 1, raw[p], <<>>)

\* the unquoted branch: copy up to '#', p is the index of the first character
RECURSIVE UnquotedLoop(_, _, _)
UnquotedLoop(raw, p, tmp) ==
    IF p > Len(raw) \/ Len(tmp) >= LINE_MAX - 1 \/ raw[p] = "#" THEN tmp
    ELSE UnquotedLoop(raw, p + 1, Append(tmp, raw[p]))

\* a variant that forgets to trim the whitespace before the comment
parse_unquoted_notrim(raw, p) == UnquotedLoop(raw, p, <<>>)

parse_unquoted(raw, p) ==
    LET tmp == UnquotedLoop(raw, p, <<>>)
        idx == BackSpace(tmp, Len(tmp), 0)
        cut == SubSeq(tmp, 1, idx)
    IN  From(cut, SkipSpace(cut, 1))

\* the result when no allocation fails
parse_value(raw) ==
    LET p == SkipSpace(raw, 1) IN
    IF p > Len(raw) THEN <<>>
    ELSE IF raw[p] = DQ \/ raw[p] = SQ THEN parse_quoted(raw, p)
    ELSE parse_unquoted(raw, p)


---------------------------------------------------------------------------
(* load_dotenv and interactive_create_entries *)

MaxLines == 2
MaxStdin == 3
MaxFaults == 1

EOF == <<"EOF">>

ExportPrefix == <<"e", "x", "p", "o", "r", "t", SP>>

\* strncmp(s, "export ", 7) == 0
has_export(s) == Len(s) >= 7 /\ SubSeq(s, 1, 7) = ExportPrefix

\* One line of the file as the loop body sees it, up to the call of parse_value:
\* skip is TRUE where the body says continue; key is keybuf, raw is val_raw.
LineEntry(line) ==
    LET buf == strncpy_line(line \o <<NL>>)
        s0 == trim_inplace(buf)
        s == IF has_export(s0) THEN From(s0, 8) ELSE s0
        eq == strchr(s, "=")
        keylen == Min(eq - 1, LINE_MAX - 1)
        keybuf == trim_inplace(SubSeq(s, 1, keylen))
    IN  IF s0 = <<>> \/ s0[1] = "#" THEN [skip |-> TRUE, key |-> <<>>, raw |-> <<>>]
        ELSE IF eq = 0 THEN [skip |-> TRUE, key |-> <<>>, raw |-> <<>>]
        ELSE IF keybuf = <<>> THEN [skip |-> TRUE, key |-> <<>>, raw |-> <<>>]
        ELSE [skip |-> FALSE, key |-> keybuf, raw |-> strip_eol(From(s, eq + 1))]

\* One line typed at the collector's prompt: end is TRUE where the loop breaks,
\* reject where it says continue; tmp is what is written, key and value what is set.
InputEntry(line) ==
    LET tmp == trim_inplace(strncpy_line(strip_eol(line \o <<NL>>)))
        eq == strchr(tmp, "=")
        keybuf == trim_inplace(SubSeq(tmp, 1, eq - 1))
        none == [end |-> FALSE, reject |-> TRUE, tmp |-> tmp, key |-> <<>>, value |-> <<>>]
    IN  IF tmp = <<>> THEN [none EXCEPT !.end = TRUE, !.reject = FALSE]
        ELSE IF eq = 0 THEN none
        ELSE IF eq - 1 = 0 THEN none
        ELSE IF eq - 1 >= LINE_MAX THEN none
        ELSE IF keybuf = <<>> THEN none
        ELSE [end |-> FALSE, reject |-> FALSE, tmp |-> tmp, key |-> keybuf,
              value |-> From(tmp, eq + 1)]

\* a variant that prompts whenever nothing was set, terminal or not
wants_prompt_always(vs, t) == vs = 0

\* if (vars_set == 0 && input_is_tty)
wants_prompt(vs, t) == vs = 0 /\ t

\* a variant that takes only a lower-case y for a yes
is_yes_lower(answer) == answer # EOF /\ (answer \o <<NL>>)[1] = "y"

\* fgets(answer) succeeded and answer[0] is 'y' or 'Y'
is_yes(answer) == answer # EOF /\ (answer \o <<NL>>)[1] \in {"y", "Y"}

\* the lines the model's files are made of
FileLines ==
    { <<"A", "=", "x">>,
      <<"A", "=", "$", "{", "B", "}">>,
      <<"B", "=", "y">>,
      <<"e", "x", "p", "o", "r", "t", SP, "B", SP, "=", SP, DQ, "$", "{", "A", "}", DQ, SP, "#">>,
      <<TAB>>,
      <<SP, "#", "c">>,
      <<"A">>,
      <<"=", "x">>,
      <<"e", "x", "p", "o", "r", "t", SP, SP, "=", "x">> }

\* what the user may type at the collector's prompt
InputLines ==
    { <<>>,
      <<"K", "=", "v">>,
      <<SP, "B", SP, "=", SP, "q", SP>>,
      <<"n", "o">>,
      <<SP, "=", "v">> }

\* what the user may answer to the y/N question, without the line terminator
Answers == { <<"y">>, <<"Y">>, <<"n">>, <<>> }

InitialEnvs == { EmptyEnv, set_env_var(EmptyEnv, <<"B">>, <<"w">>) }

HistInit ==
    [env0 |-> EmptyEnv, file0 |-> <<>>, exists0 |-> FALSE, reads0 |-> 0,
     faults0 |-> 0, log |-> <<>>, eof |-> FALSE, asked |-> FALSE,
     answer |-> EOF, collector |-> FALSE, snap |-> EmptyEnv,
     first_plain |-> FALSE, cause |-> "none", opens |-> 0, closes |-> 0,
     input |-> EOF, ret |-> <<>>]

\* what a read of stdin may return: a line while input is left, or end of input
StdinLines(lines) == IF stdin_reads < MaxStdin THEN lines \cup {EOF} ELSE {EOF}

\* hist when load_dotenv returns: the first call leaves its store behind in snap
AtReturn(h, e, st, f) ==
    IF loads = 1
    THEN [h EXCEPT !.snap = e,
                   !.first_plain = (st = 0 /\ f = h.faults0 /\ ~h.collector)]
    ELSE h

\* the statuses of the fatal returns of load_dotenv
status_parse == -2
status_expand_as_parse == status_parse
status_expand == -3
status_append == -4

\* FILE *f = fopen(filename, "r"); and, without a file, the code after the loop.
\* The process calls load_dotenv once, and once more on the same file.
\* What an earlier get_env returned was released before this call.
LoadOpen ==
    /\ pc = "idle"
    /\ loads < 2
    /\ loads' = loads + 1
    /\ lineno' = 0
    /\ vars_set' = 0
    /\ added' = 0
    /\ f_open' = file_exists
    /\ hist' = [hist EXCEPT !.env0 = env, !.file0 = file, !.exists0 = file_exists,
                            !.reads0 = stdin_reads, !.faults0 = faults,
                            !.log = <<>>, !.eof = ~file_exists, !.asked = FALSE,
                            !.answer = EOF, !.collector = FALSE,
                            !.cause = "none",
                            !.opens = IF file_exists THEN 1 ELSE 0, !.closes = 0,
                            !.input = EOF, !.ret = <<>>]
    /\ pc' = IF file_exists THEN "read"
             ELSE IF wants_prompt(0, tty) THEN "ask" ELSE "return"
    /\ arg' = <<>>
    /\ res' = <<>>
    /\ fpc' = "in"
    /\ UNCHANGED <<env, file_exists, file, tty, status, fw_open, stdin_reads,
                   faults>>
    /\ UNCHANGED progVars

\* a variant of the skipped line that leaves the loop
LoadSkipBreak ==
    /\ pc = "read"
    /\ lineno < Len(file)
    /\ LineEntry(file[lineno + 1]).skip
    /\ lineno' = Len(file)
    /\ UNCHANGED <<env, file_exists, file, tty, pc, vars_set, added, status,
                   f_open, fw_open, stdin_reads, faults, loads, hist, arg, res, fpc>>
    /\ UNCHANGED progVars

\* fgets read a line and the body says continue before parse_value
LoadSkip ==
    /\ pc = "read"
    /\ lineno < Len(file)
    /\ LineEntry(file[lineno + 1]).skip
    /\ lineno' = lineno + 1
    /\ UNCHANGED <<env, file_exists, file, tty, pc, vars_set, added, status,
                   f_open, fw_open, stdin_reads, faults, loads, hist, arg, res, fpc>>
    /\ UNCHANGED progVars

\* a variant that expands against the store as it was when the call began
LoadSetStale ==
    /\ pc = "read"
    /\ lineno < Len(file)
    /\ ~LineEntry(file[lineno + 1]).skip
    /\ LET ent == LineEntry(file[lineno + 1])
           val_parsed == parse_value(ent.raw)
           val_expanded == expand_vars(val_parsed, hist.env0)
       IN  /\ env' = set_env_var(env, ent.key, val_expanded)
           /\ hist' = [hist EXCEPT !.log = Append(@,
                          [key |-> ent.key, value |-> val_expanded, line |-> lineno + 1])]
    /\ vars_set' = vars_set + 1
    /\ lineno' = lineno + 1
    /\ UNCHANGED <<file_exists, file, tty, pc, added, status, f_open, fw_open,
                   stdin_reads, faults, loads, arg, res, fpc>>
    /\ UNCHANGED progVars

\* a variant that takes a value in single quotes literally
LoadSetLiteral ==
    /\ pc = "read"
    /\ lineno < Len(file)
    /\ ~LineEntry(file[lineno + 1]).skip
    /\ LET ent == LineEntry(file[lineno + 1])
           val_parsed == parse_value(ent.raw)
           q == SkipSpace(ent.raw, 1)
           val_expanded == IF q <= Len(ent.raw) /\ ent.raw[q] = SQ THEN val_parsed
                           ELSE expand_vars(val_parsed, env)
       IN  /\ env' = set_env_var(env, ent.key, val_expanded)
           /\ hist' = [hist EXCEPT !.log = Append(@,
                          [key |-> ent.key, value |-> val_expanded, line |-> lineno + 1])]
    /\ vars_set' = vars_set + 1
    /\ lineno' = lineno + 1
    /\ UNCHANGED <<file_exists, file, tty, pc, added, status, f_open, fw_open,
                   stdin_reads, faults, loads, arg, res, fpc>>
    /\ UNCHANGED progVars

\* fgets read a KEY=VALUE line; parse_value, expand_vars and setenv succeed
LoadSet ==
    /\ pc = "read"
    /\ lineno < Len(file)
    /\ ~LineEntry(file[lineno + 1]).skip
    /\ LET ent == LineEntry(file[lineno + 1])
           val_parsed == parse_value(ent.raw)
           val_expanded == expand_vars(val_parsed, env)
       IN  /\ env' = set_env_var(env, ent.key, val_expanded)
           /\ hist' = [hist EXCEPT !.log = Append(@,
                          [key |-> ent.key, value |-> val_expanded, line |-> lineno + 1])]
    /\ vars_set' = vars_set + 1
    /\ lineno' = lineno + 1
    /\ UNCHANGED <<file_exists, file, tty, pc, added, status, f_open, fw_open,
                   stdin_reads, faults, loads, arg, res, fpc>>
    /\ UNCHANGED progVars

\* setenv fails: a warning, and the loop goes on
LoadSetFail ==
    /\ pc = "read"
    /\ lineno < Len(file)
    /\ ~LineEntry(file[lineno + 1]).skip
    /\ faults < MaxFaults
    /\ faults' = faults + 1
    /\ lineno' = lineno + 1
    /\ UNCHANGED <<env, file_exists, file, tty, pc, vars_set, added, status,
                   f_open, fw_open, stdin_reads, loads, hist, arg, res, fpc>>
    /\ UNCHANGED progVars

\* a variant of the failure of parse_value that puts the store back as it was
LoadParseFailRollback ==
    /\ pc = "read"
    /\ lineno < Len(file)
    /\ ~LineEntry(file[lineno + 1]).skip
    /\ faults < MaxFaults
    /\ faults' = faults + 1
    /\ lineno' = lineno + 1
    /\ f_open' = FALSE
    /\ status' = status_parse
    /\ pc' = "idle"
    /\ env' = hist.env0
    /\ hist' = AtReturn([hist EXCEPT !.cause = "parse", !.closes = @ + 1], hist.env0, status_parse, faults + 1)
    /\ UNCHANGED <<file_exists, file, tty, vars_set, added, fw_open,
                   stdin_reads, loads, arg, res, fpc>>
    /\ UNCHANGED progVars

\* parse_value returns NULL: fclose(f); return -2;
LoadParseFail ==
    /\ pc = "read"
    /\ lineno < Len(file)
    /\ ~LineEntry(file[lineno + 1]).skip
    /\ faults < MaxFaults
    /\ faults' = faults + 1
    /\ lineno' = lineno + 1
    /\ f_open' = FALSE
    /\ status' = status_parse
    /\ pc' = "idle"
    /\ hist' = AtReturn([hist EXCEPT !.cause = "parse", !.closes = @ + 1], env, status_parse, faults + 1)
    /\ UNCHANGED <<env, file_exists, file, tty, vars_set, added, fw_open,
                   stdin_reads, loads, arg, res, fpc>>
    /\ UNCHANGED progVars

\* expand_vars returns NULL: fclose(f); return -3;
LoadExpandFail ==
    /\ pc = "read"
    /\ lineno < Len(file)
    /\ ~LineEntry(file[lineno + 1]).skip
    /\ faults < MaxFaults
    /\ faults' = faults + 1
    /\ lineno' = lineno + 1
    /\ f_open' = FALSE
    /\ status' = status_expand
    /\ pc' = "idle"
    /\ hist' = AtReturn([hist EXCEPT !.cause = "expand", !.closes = @ + 1], env, status_expand, faults + 1)
    /\ UNCHANGED <<env, file_exists, file, tty, vars_set, added, fw_open,
                   stdin_reads, loads, arg, res, fpc>>
    /\ UNCHANGED progVars

\* fgets returns NULL at the end of the file: fclose(f), then the isatty test
LoadEOF ==
    /\ pc = "read"
    /\ lineno = Len(file)
    /\ f_open' = FALSE
    /\ hist' = [hist EXCEPT !.eof = TRUE, !.closes = @ + 1]
    /\ pc' = IF wants_prompt(vars_set, tty) THEN "ask" ELSE "return"
    /\ UNCHANGED <<env, file_exists, file, tty, lineno, vars_set, added, status,
                   fw_open, stdin_reads, faults, loads, arg, res, fpc>>
    /\ UNCHANGED progVars

\* return 0;
LoadReturn ==
    /\ pc = "return"
    /\ status' = 0
    /\ pc' = "idle"
    /\ hist' = AtReturn(hist, env, 0, faults)
    /\ UNCHANGED <<env, file_exists, file, tty, lineno, vars_set, added, f_open,
                   fw_open, stdin_reads, faults, loads, arg, res, fpc>>
    /\ UNCHANGED progVars

\* the y/N question is answered with something else than yes, or stdin is at its end
AnswerNo ==
    /\ pc = "ask"
    /\ \E answer \in StdinLines(Answers) :
          /\ ~is_yes(answer)
          /\ hist' = [hist EXCEPT !.asked = TRUE, !.answer = answer]
    /\ stdin_reads' = stdin_reads + 1
    /\ pc' = "return"
    /\ UNCHANGED <<env, file_exists, file, tty, lineno, vars_set, added, status,
                   f_open, fw_open, faults, loads, arg, res, fpc>>
    /\ UNCHANGED progVars

\* the answer is yes: interactive_create_entries opens the file for append
AnswerYes ==
    /\ pc = "ask"
    /\ \E answer \in StdinLines(Answers) :
          /\ is_yes(answer)
          /\ hist' = [hist EXCEPT !.asked = TRUE, !.answer = answer,
                                  !.collector = TRUE, !.opens = @ + 1]
    /\ stdin_reads' = stdin_reads + 1
    /\ file_exists' = TRUE
    /\ fw_open' = TRUE
    /\ added' = 0
    /\ pc' = "collect"
    /\ UNCHANGED <<env, file, tty, lineno, vars_set, status, f_open, faults,
                   loads, arg, res, fpc>>
    /\ UNCHANGED progVars

\* the answer is yes and fopen(filename, "a") fails: return -1, load returns -4
AnswerYesOpenFail ==
    /\ pc = "ask"
    /\ faults < MaxFaults
    /\ \E answer \in StdinLines(Answers) :
          /\ is_yes(answer)
          /\ hist' = AtReturn([hist EXCEPT !.asked = TRUE, !.answer = answer,
                                           !.collector = TRUE, !.cause = "append",
                                           !.ret = <<-1>>],
                               env, status_append, faults + 1)
    /\ stdin_reads' = stdin_reads + 1
    /\ faults' = faults + 1
    /\ status' = status_append
    /\ pc' = "idle"
    /\ UNCHANGED <<env, file_exists, file, tty, lineno, vars_set, added, f_open,
                   fw_open, loads, arg, res, fpc>>
    /\ UNCHANGED progVars

\* the collector reads end of input or an empty line: fclose(fw); return added;
CollectEnd ==
    /\ pc = "collect"
    /\ \E line \in StdinLines(InputLines) :
          /\ line = EOF \/ InputEntry(line).end
          /\ hist' = [hist EXCEPT !.closes = @ + 1, !.input = line,
                                  !.ret = <<added>>]
    /\ stdin_reads' = stdin_reads + 1
    /\ fw_open' = FALSE
    /\ pc' = "return"
    /\ UNCHANGED <<env, file_exists, file, tty, lineno, vars_set, added, status,
                   f_open, faults, loads, arg, res, fpc>>
    /\ UNCHANGED progVars

\* a variant of the rejected line that ends the collector
CollectRejectEnds ==
    /\ pc = "collect"
    /\ \E line \in StdinLines(InputLines) :
          /\ line # EOF
          /\ InputEntry(line).reject
          /\ hist' = [hist EXCEPT !.closes = @ + 1, !.input = line]
    /\ stdin_reads' = stdin_reads + 1
    /\ fw_open' = FALSE
    /\ pc' = "return"
    /\ UNCHANGED <<env, file_exists, file, tty, lineno, vars_set, added, status,
                   f_open, faults, loads, arg, res, fpc>>
    /\ UNCHANGED progVars

\* the collector reads a line without '=' or without a key: continue
CollectReject ==
    /\ pc = "collect"
    /\ \E line \in StdinLines(InputLines) :
          /\ line # EOF
          /\ InputEntry(line).reject
          /\ hist' = [hist EXCEPT !.input = line]
    /\ stdin_reads' = stdin_reads + 1
    /\ UNCHANGED <<env, file_exists, file, tty, pc, lineno, vars_set, added,
                   status, f_open, fw_open, faults, loads, arg, res, fpc>>
    /\ UNCHANGED progVars

\* the collector reads KEY=VALUE: the line is written and flushed, the variable set
CollectAccept ==
    /\ pc = "collect"
    /\ \E line \in StdinLines(InputLines) :
          /\ line # EOF
          /\ ~InputEntry(line).end
          /\ ~InputEntry(line).reject
          /\ LET ent == InputEntry(line) IN
             /\ file' = Append(file, ent.tmp)
             /\ env' = set_env_var(env, ent.key, ent.value)
             /\ hist' = [hist EXCEPT !.input = line, !.log = Append(@,
                            [key |-> ent.key, value |-> ent.value, line |-> 0])]
    /\ stdin_reads' = stdin_reads + 1
    /\ added' = added + 1
    /\ UNCHANGED <<file_exists, tty, pc, lineno, vars_set, status, f_open,
                   fw_open, faults, loads, arg, res, fpc>>
    /\ UNCHANGED progVars

\* a variant of the failed setenv that counts the line all the same
CollectSetFailCounts ==
    /\ pc = "collect"
    /\ faults < MaxFaults
    /\ \E line \in StdinLines(InputLines) :
          /\ line # EOF
          /\ ~InputEntry(line).end
          /\ ~InputEntry(line).reject
          /\ file' = Append(file, InputEntry(line).tmp)
          /\ hist' = [hist EXCEPT !.input = line]
    /\ stdin_reads' = stdin_reads + 1
    /\ faults' = faults + 1
    /\ added' = added + 1
    /\ UNCHANGED <<env, file_exists, tty, pc, lineno, vars_set, status,
                   f_open, fw_open, loads, arg, res, fpc>>
    /\ UNCHANGED progVars

\* the line is written but setenv fails: a warning, added stays
CollectSetFail ==
    /\ pc = "collect"
    /\ faults < MaxFaults
    /\ \E line \in StdinLines(InputLines) :
          /\ line # EOF
          /\ ~InputEntry(line).end
          /\ ~InputEntry(line).reject
          /\ file' = Append(file, InputEntry(line).tmp)
          /\ hist' = [hist EXCEPT !.input = line]
    /\ stdin_reads' = stdin_reads + 1
    /\ faults' = faults + 1
    /\ UNCHANGED <<env, file_exists, tty, pc, lineno, vars_set, added, status,
                   f_open, fw_open, loads, arg, res, fpc>>
    /\ UNCHANGED progVars

\* a variant of the failed write that returns without fclose(fw)
CollectWriteFailLeak ==
    /\ pc = "collect"
    /\ faults < MaxFaults
    /\ \E line \in StdinLines(InputLines) :
          /\ line # EOF
          /\ ~InputEntry(line).end
          /\ ~InputEntry(line).reject
          /\ hist' = AtReturn([hist EXCEPT !.cause = "append", !.input = line,
                                           !.ret = <<-1>>],
                               env, status_append, faults + 1)
    /\ stdin_reads' = stdin_reads + 1
    /\ faults' = faults + 1
    /\ status' = status_append
    /\ pc' = "idle"
    /\ UNCHANGED <<env, file_exists, file, tty, lineno, vars_set, added, f_open,
                   fw_open, loads, arg, res, fpc>>
    /\ UNCHANGED progVars

\* fprintf fails: fclose(fw); return -1; and load_dotenv returns -4
CollectWriteFail ==
    /\ pc = "collect"
    /\ faults < MaxFaults
    /\ \E line \in StdinLines(InputLines) :
          /\ line # EOF
          /\ ~InputEntry(line).end
          /\ ~InputEntry(line).reject
          /\ hist' = AtReturn([hist EXCEPT !.cause = "append", !.closes = @ + 1,
                                           !.input = line, !.ret = <<-1>>],
                               env, status_append, faults + 1)
    /\ stdin_reads' = stdin_reads + 1
    /\ faults' = faults + 1
    /\ fw_open' = FALSE
    /\ status' = status_append
    /\ pc' = "idle"
    /\ UNCHANGED <<env, file_exists, file, tty, lineno, vars_set, added, f_open,
                   loads, arg, res, fpc>>
    /\ UNCHANGED progVars

Init ==
    /\ env \in InitialEnvs
    /\ file_exists \in BOOLEAN
    /\ file \in (IF file_exists THEN SeqsUpTo(FileLines, MaxLines) ELSE {<<>>})
    /\ tty \in BOOLEAN
    /\ pc = "idle"
    /\ lineno = 0
    /\ vars_set = 0
    /\ added = 0
    /\ status = 0
    /\ f_open = FALSE
    /\ fw_open = FALSE
    /\ stdin_reads = 0
    /\ faults = 0
    /\ loads = 0
    /\ hist = HistInit
    /\ arg = <<>>
    /\ res = <<>>
    /\ fpc = "in"
    /\ ProgAtRest

Next ==
    \/ LoadOpen
    \/ LoadSkip
    \/ LoadSet
    \/ LoadSetFail
    \/ LoadParseFail
    \/ LoadExpandFail
    \/ LoadEOF
    \/ LoadReturn
    \/ AnswerNo
    \/ AnswerYes
    \/ AnswerYesOpenFail
    \/ CollectEnd
    \/ CollectReject
    \/ CollectAccept
    \/ CollectSetFail
    \/ CollectWriteFail

Spec == Init /\ [][Next]_vars

---------------------------------------------------------------------------
(* get_env: the value of a variable as an array of trimmed tokens *)

\* a variant that skips only the leading whitespace
trim_string_copy_lead(s) == From(s, SkipSpace(s, 1))

\* trim_string_copy: skip leading whitespace, copy, cut trailing whitespace.
\* On a copy that is empty, end is copy - 1, the loop does not run and the
\* terminator is written at copy[0]: the result is the empty string.
trim_string_copy(s) ==
    LET copy == From(s, SkipSpace(s, 1))
        end == BackSpace(copy, Len(copy), 1)
    IN  SubSeq(copy, 1, end)

\* the characters of a delimiter string
DelimChars(delim) == {delim[i] : i \in 1..Len(delim)}

\* strtok's scans: the first index at or after p that is not, or that is, a delimiter
RECURSIVE SkipDelims(_, _, _)
SkipDelims(s, p, delim) ==
    IF p <= Len(s) /\ s[p] \in DelimChars(delim) THEN SkipDelims(s, p + 1, delim) ELSE p

RECURSIVE ScanToken(_, _, _)
ScanToken(s, p, delim) ==
    IF p <= Len(s) /\ s[p] \notin DelimChars(delim) THEN ScanToken(s, p + 1, delim) ELSE p

\* what get_env returns with NULL: no array, *count_out = 0
NoResult == [null |-> TRUE, arr |-> <<>>, count |-> 0, capacity |-> 0]

\* a variant of the loop that stores every token, empty after trimming or not
RECURSIVE SplitLoopKeepEmpty(_, _, _, _)
SplitLoopKeepEmpty(s, p, delim, r) ==
    LET start == SkipDelims(s, p, delim)
        stop == ScanToken(s, start, delim)
        clean_token == trim_string_copy(SubSeq(s, start, stop - 1))
        capacity == IF r.count >= r.capacity - 1 THEN r.capacity * 2 ELSE r.capacity
    IN  IF start > Len(s) THEN r
        ELSE SplitLoopKeepEmpty(s, stop + 1, delim,
                 [r EXCEPT !.arr = Append(@, clean_token), !.count = @ + 1,
                           !.capacity = capacity])

\* a variant of the loop that grows the array only when it is full
RECURSIVE SplitLoopGrowLate(_, _, _, _)
SplitLoopGrowLate(s, p, delim, r) ==
    LET start == SkipDelims(s, p, delim)
        stop == ScanToken(s, start, delim)
        clean_token == trim_string_copy(SubSeq(s, start, stop - 1))
        capacity == IF r.count >= r.capacity THEN r.capacity * 2 ELSE r.capacity
    IN  IF start > Len(s) THEN r
        ELSE IF Len(clean_token) > 0
        THEN SplitLoopGrowLate(s, stop + 1, delim,
                 [r EXCEPT !.arr = Append(@, clean_token), !.count = @ + 1,
                           !.capacity = capacity])
        ELSE SplitLoopGrowLate(s, stop + 1, delim, r)

\* token = strtok(work_str, delim); while (token) { ... token = strtok(NULL, delim); }
RECURSIVE SplitLoop(_, _, _, _)
SplitLoop(s, p, delim, r) ==
    LET start == SkipDelims(s, p, delim)
        stop == ScanToken(s, start, delim)
        clean_token == trim_string_copy(SubSeq(s, start, stop - 1))
        capacity == IF r.count >= r.capacity - 1 THEN r.capacity * 2 ELSE r.capacity
    IN  IF start > Len(s) THEN r
        ELSE IF Len(clean_token) > 0
        THEN SplitLoop(s, stop + 1, delim,
                 [r EXCEPT !.arr = Append(@, clean_token), !.count = @ + 1,
                           !.capacity = capacity])
        ELSE SplitLoop(s, stop + 1, delim, r)

\* a variant of the branch without delimiter that returns the value as it is
get_env_whole_raw(raw_val) ==
    [null |-> FALSE, arr |-> <<raw_val>>, count |-> 1, capacity |-> 2]

\* if (!delim || strlen(delim) == 0): the whole value, trimmed, as one element
get_env_whole(raw_val) ==
    [null |-> FALSE, arr |-> <<trim_string_copy(raw_val)>>, count |-> 1, capacity |-> 2]

\* the branch with a delimiter: capacity 10, the strtok loop, the terminator
get_env_split(raw_val, delim) ==
    SplitLoop(raw_val, 1, delim,
              [null |-> FALSE, arr |-> <<>>, count |-> 0, capacity |-> 10])

\* a variant that never splits
get_env_unsplit(e, key, delim) ==
    LET raw_val == getenv(e, key) IN
    IF raw_val = NULL \/ Len(raw_val) = 0 THEN NoResult
    ELSE get_env_whole(raw_val)

\* char **get_env(const char *key, const char *delim, int *count_out)
get_env(e, key, delim) ==
    LET raw_val == getenv(e, key) IN
    IF raw_val = NULL \/ Len(raw_val) = 0 THEN NoResult
    ELSE IF delim = NULL \/ Len(delim) = 0 THEN get_env_whole(raw_val)
    ELSE get_env_split(raw_val, delim)

---------------------------------------------------------------------------
(* The pure functions on bounded inputs *)

MaxTok == 6
MaxParseLen == 5

RECURSIVE Flatten(_)
Flatten(ss) == IF ss = <<>> THEN <<>> ELSE Head(ss) \o Flatten(Tail(ss))

\* the pieces the inputs of expand_vars are made of
ExpandTokens == {<<"$", "{">>, <<"}">>, <<"X">>, <<"$">>}

ExpandInputs == {Flatten(ts) : ts \in SeqsUpTo(ExpandTokens, MaxTok)}

NameX == <<"X">>

ExpandStores ==
    { EmptyEnv,
      set_env_var(EmptyEnv, NameX, <<"v">>),
      set_env_var(EmptyEnv, NameX, <<"$", "{", "Y", "}">>) }

ParseChars == {SP, DQ, SQ, BS, "#", "a"}

ParseInputs == SeqsUpTo(ParseChars, MaxParseLen)

\* the state of a process that has not called load_dotenv
LoaderAtRest ==
    /\ file_exists = FALSE
    /\ file = <<>>
    /\ tty = FALSE
    /\ pc = "idle"
    /\ lineno = 0
    /\ vars_set = 0
    /\ added = 0
    /\ status = 0
    /\ f_open = FALSE
    /\ fw_open = FALSE
    /\ stdin_reads = 0
    /\ faults = 0
    /\ loads = 0
    /\ hist = HistInit

InitExpand ==
    /\ LoaderAtRest
    /\ env \in ExpandStores
    /\ arg \in ExpandInputs
    /\ res = <<>>
    /\ fpc = "in"
    /\ ProgAtRest

CallExpand ==
    /\ fpc = "in"
    /\ res' = expand_vars(arg, env)
    /\ fpc' = "expand_vars"
    /\ UNCHANGED <<env, arg, loaderVars>>
    /\ UNCHANGED progVars

SpecExpand == InitExpand /\ [][CallExpand]_vars

InitParse ==
    /\ LoaderAtRest
    /\ env = EmptyEnv
    /\ arg \in ParseInputs
    /\ res = <<>>
    /\ fpc = "in"
    /\ ProgAtRest

CallParse ==
    /\ fpc = "in"
    /\ res' = parse_value(arg)
    /\ fpc' = "parse_value"
    /\ UNCHANGED <<env, arg, loaderVars>>
    /\ UNCHANGED progVars

SpecParse == InitParse /\ [][CallParse]_vars

MaxSplitLen == 4

\* the characters the stored values are made of
SplitChars == {"a", "b", SP, ";", ","}

NameK == <<"K">>

\* stores in which K is missing, empty, or any short value
SplitStores ==
    {EmptyEnv} \cup {set_env_var(EmptyEnv, NameK, v) : v \in SeqsUpTo(SplitChars, MaxSplitLen)}

\* the delimiters of the calls: absent, empty, one character, two characters
Delims == {NULL, <<>>, <<";">>, <<";", ",">>}

InitSplit ==
    /\ LoaderAtRest
    /\ env \in SplitStores
    /\ arg = <<>>
    /\ res = <<>>
    /\ fpc = "in"
    /\ ProgAtRest

\* a call of get_env on K; arg keeps the arguments of the call
CallGetEnv ==
    /\ fpc = "in"
    /\ \E delim \in Delims :
          /\ arg' = <<NameK, delim>>
          /\ res' = get_env(env, NameK, delim)
    /\ fpc' = "get_env"
    /\ UNCHANGED <<env, loaderVars>>
    /\ UNCHANGED progVars

SpecSplit == InitSplit /\ [][CallGetEnv]_vars

---------------------------------------------------------------------------
(* get_env on values of many tokens *)

MaxPieces == 21

\* the pieces the long values are made of: a token or a blank, and a delimiter
GrowPieces == {<<"a", ";">>, <<SP, ";">>, <<"b", ",">>}

\* the value of k pieces that repeats the pattern pat
Repeated(pat, k) == Flatten([i \in 1..k |-> pat[((i - 1) % Len(pat)) + 1]])

GrowStores ==
    { set_env_var(EmptyEnv, NameK, Repeated(pat, k)) :
        pat \in [1..1 -> GrowPieces] \cup [1..2 -> GrowPieces], k \in 0..MaxPieces }

InitGrow ==
    /\ LoaderAtRest
    /\ env \in GrowStores
    /\ arg = <<>>
    /\ res = <<>>
    /\ fpc = "in"
    /\ ProgAtRest

SpecGrow == InitGrow /\ [][CallGetEnv]_vars

---------------------------------------------------------------------------
(* get_env, free_env and get_env again *)

MaxCalls == 2

\* the block of the array a call of get_env returned into heap h: 0 for NULL
BlockOf(r, h) == IF r.null THEN 0 ELSE Len(h)

\* malloc of the result array and its strings by a call that returned r
Allocated(h, r) == IF r.null THEN h ELSE Append(h, "live")

\* void free_env(char **array, int count): nothing for NULL, else the strings
\* and the array are freed; freeing them a second time is undefined
free_env(h, b) ==
    IF b = 0 THEN h
    ELSE [h EXCEPT ![b] = IF @ = "live" THEN "freed" ELSE "undefined"]

\* the value strtok leaves behind when it runs on the string itself
Truncated(v, delim) == SubSeq(v, 1, ScanToken(v, SkipDelims(v, 1, delim), delim) - 1)

\* a variant of the call that runs strtok on the stored value, not on a copy
SplitCallInPlace ==
    /\ Len(heap) < MaxCalls
    /\ \E delim \in Delims :
          /\ arg' = <<NameK, delim>>
          /\ res' = get_env(env, NameK, delim)
          /\ env' = IF NameK \in DOMAIN env /\ delim # NULL /\ delim # <<>>
                    THEN [env EXCEPT ![NameK] = Truncated(@, delim)]
                    ELSE env
    /\ heap' = Allocated(heap, res')
    /\ fpc' = "get_env"
    /\ UNCHANGED <<term, menu, fsm, loaderVars>>

\* a call of get_env on K: the first one, or one after another call or a release
SplitCall ==
    /\ Len(heap) < MaxCalls
    /\ \E delim \in Delims :
          /\ arg' = <<NameK, delim>>
          /\ res' = get_env(env, NameK, delim)
    /\ heap' = Allocated(heap, res')
    /\ fpc' = "get_env"
    /\ UNCHANGED <<env, term, menu, fsm, loaderVars>>

\* free_env(array, count) on what the last call returned
SplitRelease ==
    /\ fpc = "get_env"
    /\ heap' = free_env(heap, BlockOf(res, heap))
    /\ fpc' = "free_env"
    /\ UNCHANGED <<env, arg, res, term, menu, fsm, loaderVars>>

NextRelease ==
    \/ SplitCall
    \/ SplitRelease

SpecRelease == InitSplit /\ [][NextRelease]_vars

---------------------------------------------------------------------------
(* load_dotenv and then get_env, as state_start calls them *)

USERNAMES == <<"U", "S", "E", "R", "N", "A", "M", "E", "S">>
EMAILS == <<"E", "M", "A", "I", "L", "S">>

\* the lines of the files of this specification
ComposeLines ==
    { USERNAMES \o <<"=", DQ, "A", ";", "B", DQ>>,
      EMAILS \o <<"=", "a", "@", "x", ";", "b", "@", "x">>,
      <<"B", "=", "q", ";">>,
      <<"#", "c">>,
      USERNAMES \o <<"=", SP, "$", "{", "B", "}", ";", "A", SP, "#", "c">> }

InitCompose ==
    /\ env \in InitialEnvs
    /\ file_exists \in BOOLEAN
    /\ file \in (IF file_exists THEN SeqsUpTo(ComposeLines, MaxLines) ELSE {<<>>})
    /\ tty \in BOOLEAN
    /\ pc = "idle"
    /\ lineno = 0
    /\ vars_set = 0
    /\ added = 0
    /\ status = 0
    /\ f_open = FALSE
    /\ fw_open = FALSE
    /\ stdin_reads = 0
    /\ faults = 0
    /\ loads = 0
    /\ hist = HistInit
    /\ arg = <<>>
    /\ res = <<>>
    /\ fpc = "in"
    /\ ProgAtRest

\* get_env("USERNAMES", ";", ...) or get_env("EMAILS", ";", ...) after load_dotenv
CallGetEnvLoaded ==
    /\ pc = "idle"
    /\ loads >= 1
    /\ \E key \in {USERNAMES, EMAILS} :
          /\ arg' = <<key, <<";">> >>
          /\ res' = get_env(env, key, <<";">>)
    /\ fpc' = "get_env"
    /\ UNCHANGED <<env, loaderVars>>
    /\ UNCHANGED progVars

NextCompose ==
    \/ LoadOpen
    \/ LoadSkip
    \/ LoadSet
    \/ LoadSetFail
    \/ LoadParseFail
    \/ LoadExpandFail
    \/ LoadEOF
    \/ LoadReturn
    \/ AnswerNo
    \/ AnswerYes
    \/ AnswerYesOpenFail
    \/ CollectEnd
    \/ CollectReject
    \/ CollectAccept
    \/ CollectSetFail
    \/ CollectWriteFail
    \/ CallGetEnvLoaded

SpecCompose == InitCompose /\ [][NextCompose]_vars

---------------------------------------------------------------------------
(* load_dotenv on values that hold a reference inside quotes *)

NameA == <<"A">>
NameB == <<"B">>
NameZ == <<"Z">>

\* a quoted value with one reference: lead, quote, pre, esc, ${name}, post, quote
QuoteForms ==
    [lead : {<<>>, <<SP>>}, quote : {SQ, DQ}, pre : {<<>>, <<"p">>},
     esc : {<<>>, <<BS>>}, name : {NameA, NameB, NameZ}, post : {<<>>, <<"q">>}]

\* the line B=<value> of a form
QuoteLine(f) ==
    NameB \o <<"=">> \o f.lead \o <<f.quote>> \o f.pre \o f.esc \o <<"$", "{">>
          \o f.name \o <<"}">> \o f.post \o <<f.quote>>

QuoteLines == {QuoteLine(f) : f \in QuoteForms}

\* the files of this specification: a first line, then a line of a form
QuoteFiles ==
    { <<first, second>> : first \in { <<"A", "=", "x">>, <<"#", "c">> },
                          second \in QuoteLines }

InitQuote ==
    /\ env \in InitialEnvs
    /\ file_exists = TRUE
    /\ file \in QuoteFiles
    /\ tty \in BOOLEAN
    /\ pc = "idle"
    /\ lineno = 0
    /\ vars_set = 0
    /\ added = 0
    /\ status = 0
    /\ f_open = FALSE
    /\ fw_open = FALSE
    /\ stdin_reads = 0
    /\ faults = 0
    /\ loads = 0
    /\ hist = HistInit
    /\ arg = <<>>
    /\ res = <<>>
    /\ fpc = "in"
    /\ ProgAtRest

\* load_dotenv where no allocation and no setenv fails
NextQuote ==
    \/ LoadOpen
    \/ LoadSkip
    \/ LoadSet
    \/ LoadEOF
    \/ LoadReturn

SpecQuote == InitQuote /\ [][NextQuote]_vars

---------------------------------------------------------------------------
(* core.c: raw mode, pausef and get_input_string *)

\* void disable_raw_mode(void)
disable_raw_mode(t) ==
    IF t.raw_mode_enabled
    THEN [t EXCEPT !.termios = t.orig_termios, !.cursor = "shown",
                   !.raw_mode_enabled = FALSE]
    ELSE t

\* void enable_raw_mode(void)
enable_raw_mode(t) ==
    LET saved == IF ~t.raw_mode_enabled
                 THEN [t EXCEPT !.orig_termios = t.termios, !.atexit = TRUE,
                                !.raw_mode_enabled = TRUE]
                 ELSE t
    IN  [saved EXCEPT !.termios = saved.orig_termios \ {"ECHO", "ICANON"},
                      !.cursor = "hidden"]

\* void pausef(const char *fmt, ...): disable_raw_mode(); getchar(); enable_raw_mode();
pausef(t) == enable_raw_mode(disable_raw_mode(t))

\* void get_input_string(char *buffer, int size), on the terminal:
\* disable_raw_mode(); fgets(...); enable_raw_mode();
get_input_string(t) == enable_raw_mode(disable_raw_mode(t))

\* the terminals a process may start on
InitialTerms == {TermAtRest(lflag) : lflag \in SUBSET Flags}

InitRaw ==
    /\ LoaderAtRest
    /\ env = EmptyEnv
    /\ arg = <<>>
    /\ res = <<>>
    /\ fpc = "in"
    /\ heap = <<>>
    /\ term \in InitialTerms
    /\ menu = MenuAtRest
    /\ fsm = FsmAtRest

\* the calls: arg keeps the terminal as the call found it
CallEnableRawMode ==
    /\ arg' = term
    /\ term' = enable_raw_mode(term)
    /\ fpc' = "enable_raw_mode"
    /\ UNCHANGED <<env, res, heap, menu, fsm, loaderVars>>

CallDisableRawMode ==
    /\ arg' = term
    /\ term' = disable_raw_mode(term)
    /\ fpc' = "disable_raw_mode"
    /\ UNCHANGED <<env, res, heap, menu, fsm, loaderVars>>

CallPausef ==
    /\ arg' = term
    /\ term' = pausef(term)
    /\ fpc' = "pausef"
    /\ UNCHANGED <<env, res, heap, menu, fsm, loaderVars>>

CallGetInputString ==
    /\ arg' = term
    /\ term' = get_input_string(term)
    /\ fpc' = "get_input_string"
    /\ UNCHANGED <<env, res, heap, menu, fsm, loaderVars>>

NextRaw ==
    \/ CallEnableRawMode
    \/ CallDisableRawMode
    \/ CallPausef
    \/ CallGetInputString

SpecRaw == InitRaw /\ [][NextRaw]_vars

---------------------------------------------------------------------------
(* get_key and show_menu *)

KEY_UP == 65
KEY_DOWN == 66
KEY_ENTER == 10

\* the bytes the terminal sends for a key
ESC == 27
UpArrow == <<ESC, 91, 65>>
DownArrow == <<ESC, 91, 66>>
RightArrow == <<ESC, 91, 67>>
EnterKey == <<10>>
LetterA == <<65>>
LetterB == <<66>>
LetterX == <<120>>

Presses == {UpArrow, DownArrow, RightArrow, EnterKey, LetterA, LetterB, LetterX}

\* int get_key(void) on the bytes of one key press; a read that finds no byte
\* after ESC fails
get_key(bytes) ==
    LET c == bytes[1] IN
    IF c = ESC
    THEN IF Len(bytes) < 2 THEN ESC
         ELSE IF Len(bytes) < 3 THEN ESC
         ELSE IF bytes[2] = 91 /\ bytes[3] = 65 THEN KEY_UP
         ELSE IF bytes[2] = 91 /\ bytes[3] = 66 THEN KEY_DOWN
         ELSE 0
    ELSE c

\* selected--; if (selected < 0) selected = count - 1;
MenuUp(m) == IF m.selected - 1 < 0 THEN m.count - 1 ELSE m.selected - 1

\* selected++; if (selected >= count) selected = 0;
MenuDown(m) == IF m.selected + 1 >= m.count THEN 0 ELSE m.selected + 1

\* int selected = 0; at the call of show_menu with count options
MenuCalled(count) ==
    [active |-> TRUE, count |-> count, selected |-> 0, press |-> <<>>, key |-> 0,
     ret |-> 0]

\* one turn of show_menu's loop on a key press
MenuTurn(m, bytes) ==
    LET key == get_key(bytes)
        seen == [m EXCEPT !.press = bytes, !.key = key]
    IN  IF key = KEY_UP THEN [seen EXCEPT !.selected = MenuUp(m)]
        ELSE IF key = KEY_DOWN THEN [seen EXCEPT !.selected = MenuDown(m)]
        ELSE IF key = KEY_ENTER THEN [seen EXCEPT !.active = FALSE, !.ret = m.selected]
        ELSE seen

MaxCount == 6

InitMenu ==
    /\ LoaderAtRest
    /\ env = EmptyEnv
    /\ arg = <<>>
    /\ res = <<>>
    /\ fpc = "in"
    /\ heap = <<>>
    /\ term = enable_raw_mode(TermAtRest(Flags))
    /\ \E count \in 1..MaxCount : menu = MenuCalled(count)
    /\ fsm = FsmAtRest

\* key = get_key(); and the test of the key
MenuKey ==
    /\ menu.active
    /\ \E bytes \in Presses : menu' = MenuTurn(menu, bytes)
    /\ UNCHANGED <<env, arg, res, fpc, heap, term, fsm, loaderVars>>

SpecMenu == InitMenu /\ [][MenuKey]_vars

---------------------------------------------------------------------------
(* main.c and fsm_gh.c: the driver loop and the state functions *)

URLS == <<"U", "R", "L", "S">>
REPO_NAMES == <<"R", "E", "P", "O", "_", "N", "A", "M", "E", "S">>

\* the codes the state functions return
STATE_EXIT == -1
STATE_START == 0
STATE_CHECK_REPO == 1
STATE_INIT == 2
STATE_MENU == 3
STATE_STOP == -99

\* switch (current_state): the function of the case, or "default"
switch_case(cs) ==
    IF cs = -1 THEN "state_exit"
    ELSE IF cs = 0 THEN "state_start"
    ELSE IF cs = 1 THEN "state_check_repo"
    ELSE IF cs = 2 THEN "state_init"
    ELSE IF cs = 3 THEN "state_menu"
    ELSE "default"

\* current_state = <state function>(); break;
Returned(f, to) ==
    [f EXCEPT !.pc = "loop", !.from = f.current_state, !.returned = TRUE,
              !.current_state = to]

\* the pointer and the count a call of get_env hands out; h is the heap after it
GotArray(r, h) == [block |-> BlockOf(r, h), count |-> r.count]

\* array[i] is read: reading a released array is undefined
UseArray(h, a) ==
    IF a.block = 0 \/ h[a.block] = "live" THEN h
    ELSE [h EXCEPT ![a.block] = "undefined"]

\* free_env(a, a_count); free_env(b, b_count);
FreeBoth(h, a, b) == free_env(free_env(h, a.block), b.block)

\* if (a) free_env(a, a_count); if (b) free_env(b, b_count);
FreeBothIfSet(h, a, b) ==
    LET h1 == IF a.block # 0 THEN free_env(h, a.block) ELSE h
    IN  IF b.block # 0 THEN free_env(h1, b.block) ELSE h1

\* !a || a_count == 0 || !b || b_count == 0
MissingOrEmpty(a, b) == a.block = 0 \/ a.count = 0 \/ b.block = 0 \/ b.count = 0

\* what the user may type for a list of names
TypedLists == { <<"A">>, <<"A", ";", "B">> }

\* snprintf(line, sizeof(line), "KEY=\"%s\"\n", input), without the line terminator
QuotedLine(key, input) == key \o <<"=", DQ>> \o input \o <<DQ>>

\* the .env files of this specification: each sets a variable
FsmFiles ==
    LET u2 == QuotedLine(USERNAMES, <<"A", ";", "B">>)
        e2 == EMAILS \o <<"=", "a", ";", "b">>
        e1 == EMAILS \o <<"=", "a">>
        e0 == EMAILS \o <<"=", ";">>
        r2 == URLS \o <<"=", "u", ";", "v">>
        n2 == REPO_NAMES \o <<"=", "r", ";", "s">>
        n0 == REPO_NAMES \o <<"=", ";", SP>>
        n1 == REPO_NAMES \o <<"=", "r">>
    IN  { << <<"#", "c">>, <<"B", "=", "q">> >>,
          <<u2>>,
          <<e2>>,
          <<u2, e0>>,
          <<u2, e1>>,
          <<u2, e2>>,
          <<u2, e2, r2>>,
          <<u2, e2, n2>>,
          <<u2, e2, r2, n0>>,
          <<u2, e2, r2, n1>>,
          <<u2, e2, r2, n2>> }

\* the process at the first statement of main, at a terminal, by a .env file
InitMain ==
    /\ env \in InitialEnvs
    /\ file_exists = TRUE
    /\ file \in FsmFiles
    /\ tty = TRUE
    /\ pc = "idle"
    /\ lineno = 0
    /\ vars_set = 0
    /\ added = 0
    /\ status = 0
    /\ f_open = FALSE
    /\ fw_open = FALSE
    /\ stdin_reads = 0
    /\ faults = 0
    /\ loads = 0
    /\ hist = HistInit
    /\ arg = <<>>
    /\ res = <<>>
    /\ fpc = "in"
    /\ ProgAtRest

\* main: load_dotenv(".env") is called
MainLoad ==
    /\ fsm.pc = "main"
    /\ LoadOpen

\* main after load_dotenv returned: pausef(NULL); current_state = 0; enable_raw_mode();
MainLoop ==
    /\ fsm.pc = "main"
    /\ pc = "idle"
    /\ loads = 1
    /\ term' = enable_raw_mode(pausef(term))
    /\ fsm' = [fsm EXCEPT !.pc = "loop", !.current_state = STATE_START]
    /\ UNCHANGED <<env, arg, res, fpc, heap, menu, loaderVars>>

\* default: current_state = -1; break;
switch_default(f) == Returned(f, STATE_EXIT)

\* while (current_state != -99) switch (current_state): a case is entered, or
\* the default sets current_state = -1
MainSwitch ==
    /\ fsm.pc = "loop"
    /\ fsm.current_state # STATE_STOP
    /\ fsm' = IF switch_case(fsm.current_state) = "default"
              THEN switch_default(fsm)
              ELSE [fsm EXCEPT !.pc = switch_case(fsm.current_state)]
    /\ UNCHANGED <<env, arg, res, fpc, heap, term, menu, loaderVars>>

\* the loop ends: disable_raw_mode(); return 0;
MainReturn ==
    /\ fsm.pc = "loop"
    /\ fsm.current_state = STATE_STOP
    /\ term' = disable_raw_mode(term)
    /\ fsm' = [fsm EXCEPT !.pc = "done"]
    /\ UNCHANGED <<env, arg, res, fpc, heap, menu, loaderVars>>

\* int state_exit(): pausef(NULL); return -99;
StateExit ==
    /\ fsm.pc = "state_exit"
    /\ term' = pausef(term)
    /\ fsm' = [Returned(fsm, STATE_STOP) EXCEPT !.exits = @ + 1, !.path = "exit"]
    /\ UNCHANGED <<env, arg, res, fpc, heap, menu, loaderVars>>

\* state_start: git or gh is not installed: pausef(NULL); return -1;
StartNoTool ==
    /\ fsm.pc = "state_start"
    /\ term' = pausef(term)
    /\ fsm' = [Returned(fsm, STATE_EXIT) EXCEPT !.path = "no_tool"]
    /\ UNCHANGED <<env, arg, res, fpc, heap, menu, loaderVars>>

\* state_start: git and gh answer; load_dotenv(".env") comes next
StartTools ==
    /\ fsm.pc = "state_start"
    /\ fsm' = [fsm EXCEPT !.pc = "start_load"]
    /\ UNCHANGED <<env, arg, res, fpc, heap, term, menu, loaderVars>>

\* state_start: load_dotenv(".env") is called
StartLoad ==
    /\ fsm.pc = "start_load"
    /\ LoadOpen

\* state_start after load_dotenv returned, whatever its status:
\* usernames = get_env("USERNAMES", ";", ...); emails = get_env("EMAILS", ";", ...);
StartGetEnv ==
    /\ fsm.pc = "start_load"
    /\ pc = "idle"
    /\ loads = 2
    /\ LET ru == get_env(env, USERNAMES, <<";">>)
           h1 == Allocated(heap, ru)
           re == get_env(env, EMAILS, <<";">>)
           h2 == Allocated(h1, re)
       IN  /\ heap' = h2
           /\ fsm' = [fsm EXCEPT !.pc = "start_got",
                                 !.usernames = GotArray(ru, h1),
                                 !.emails = GotArray(re, h2)]
    /\ UNCHANGED <<env, arg, res, fpc, term, menu, loaderVars>>

\* state_start, case 1, one of the two typed lines is empty:
\* get_input_string (once or twice); pausef(NULL); return -1;
StartNoInput ==
    /\ fsm.pc = "start_got"
    /\ MissingOrEmpty(fsm.usernames, fsm.emails)
    /\ term' = pausef(get_input_string(term))
    /\ fsm' = [Returned(fsm, STATE_EXIT) EXCEPT !.path = "start_no_input"]
    /\ UNCHANGED <<env, arg, res, fpc, heap, menu, loaderVars>>

\* state_start, case 1, fopen(".env", "a") fails: pausef(NULL); return -1;
StartAppendFail ==
    /\ fsm.pc = "start_got"
    /\ MissingOrEmpty(fsm.usernames, fsm.emails)
    /\ term' = pausef(get_input_string(get_input_string(term)))
    /\ fsm' = [Returned(fsm, STATE_EXIT) EXCEPT !.path = "start_append_fail"]
    /\ UNCHANGED <<env, arg, res, fpc, heap, menu, loaderVars>>

\* state_start, case 1: both lines are appended to .env; pausef(NULL); return -1;
StartAppend ==
    /\ fsm.pc = "start_got"
    /\ MissingOrEmpty(fsm.usernames, fsm.emails)
    /\ \E names \in TypedLists, mails \in TypedLists :
          file' = file \o <<QuotedLine(USERNAMES, names), QuotedLine(EMAILS, mails)>>
    /\ term' = pausef(get_input_string(get_input_string(term)))
    /\ fsm' = [Returned(fsm, STATE_EXIT) EXCEPT !.path = "start_append"]
    /\ UNCHANGED <<env, arg, res, fpc, heap, menu, file_exists, tty, pc, lineno,
                   vars_set, added, status, f_open, fw_open, stdin_reads, faults,
                   loads, hist>>

\* state_start, the counts differ: both arrays are released; pausef(NULL); return -1;
StartMismatch ==
    /\ fsm.pc = "start_got"
    /\ ~MissingOrEmpty(fsm.usernames, fsm.emails)
    /\ fsm.usernames.count # fsm.emails.count
    /\ heap' = FreeBoth(heap, fsm.usernames, fsm.emails)
    /\ term' = pausef(term)
    /\ fsm' = [Returned(fsm, STATE_EXIT) EXCEPT !.path = "start_mismatch"]
    /\ UNCHANGED <<env, arg, res, fpc, menu, loaderVars>>

\* state_start, case 2 (git config not set) or case 3 answered with yes:
\* show_menu("Select Git Credentials", ..., username_count) is called
StartSelect ==
    /\ fsm.pc = "start_got"
    /\ ~MissingOrEmpty(fsm.usernames, fsm.emails)
    /\ fsm.usernames.count = fsm.emails.count
    /\ \E configured \in BOOLEAN :
          term' = IF configured THEN get_input_string(term) ELSE term
    /\ heap' = UseArray(UseArray(heap, fsm.usernames), fsm.emails)
    /\ menu' = MenuCalled(fsm.usernames.count)
    /\ fsm' = [fsm EXCEPT !.pc = "start_menu"]
    /\ UNCHANGED <<env, arg, res, fpc, loaderVars>>

\* state_start after show_menu returned: set_git_credentials(usernames[choice],
\* emails[choice]); pausef(NULL); both arrays are released; return 1;
StartChosen ==
    /\ fsm.pc = "start_menu"
    /\ ~menu.active
    /\ heap' = FreeBoth(UseArray(UseArray(heap, fsm.usernames), fsm.emails),
                        fsm.usernames, fsm.emails)
    /\ term' = pausef(term)
    /\ menu' = MenuAtRest
    /\ fsm' = [Returned(fsm, STATE_CHECK_REPO) EXCEPT !.path = "start_chosen"]
    /\ UNCHANGED <<env, arg, res, fpc, loaderVars>>

\* state_start, case 3 answered with something else than yes:
\* pausef(NULL); both arrays are released; return 1;
StartKeep ==
    /\ fsm.pc = "start_got"
    /\ ~MissingOrEmpty(fsm.usernames, fsm.emails)
    /\ fsm.usernames.count = fsm.emails.count
    /\ heap' = FreeBoth(heap, fsm.usernames, fsm.emails)
    /\ term' = pausef(get_input_string(term))
    /\ fsm' = [Returned(fsm, STATE_CHECK_REPO) EXCEPT !.path = "start_keep"]
    /\ UNCHANGED <<env, arg, res, fpc, menu, loaderVars>>

\* a variant of state_check_repo that goes back to the start when .git is missing
CheckRepoAbsentRestart ==
    /\ fsm.pc = "state_check_repo"
    /\ fsm' = [Returned(fsm, STATE_START) EXCEPT !.path = "check_absent"]
    /\ UNCHANGED <<env, arg, res, fpc, heap, term, menu, loaderVars>>

\* state_check_repo, .git does not exist: return 2;
CheckRepoAbsent ==
    /\ fsm.pc = "state_check_repo"
    /\ fsm' = [Returned(fsm, STATE_INIT) EXCEPT !.path = "check_absent"]
    /\ UNCHANGED <<env, arg, res, fpc, heap, term, menu, loaderVars>>

\* state_check_repo, .git exists: get_input_string; pausef(NULL);
\* return 2 on yes, return 3 otherwise
CheckRepoPresent ==
    /\ fsm.pc = "state_check_repo"
    /\ term' = pausef(get_input_string(term))
    /\ \E to \in {STATE_INIT, STATE_MENU} :
          fsm' = [Returned(fsm, to) EXCEPT !.path = "check_present"]
    /\ UNCHANGED <<env, arg, res, fpc, heap, menu, loaderVars>>

\* state_init: urls = get_env("URLS", ";", ...); repo_names = get_env("REPO_NAMES", ";", ...);
InitGetEnv ==
    /\ fsm.pc = "state_init"
    /\ LET ru == get_env(env, URLS, <<";">>)
           h1 == Allocated(heap, ru)
           rn == get_env(env, REPO_NAMES, <<";">>)
           h2 == Allocated(h1, rn)
       IN  /\ heap' = h2
           /\ fsm' = [fsm EXCEPT !.pc = "init_got",
                                 !.urls = GotArray(ru, h1),
                                 !.repo_names = GotArray(rn, h2)]
    /\ UNCHANGED <<env, arg, res, fpc, term, menu, loaderVars>>

\* state_init, case 1: pausef(NULL); each array that is not NULL is released; return -1;
InitMissing ==
    /\ fsm.pc = "init_got"
    /\ MissingOrEmpty(fsm.urls, fsm.repo_names)
    /\ term' = pausef(term)
    /\ heap' = FreeBothIfSet(heap, fsm.urls, fsm.repo_names)
    /\ fsm' = [Returned(fsm, STATE_EXIT) EXCEPT !.path = "init_missing"]
    /\ UNCHANGED <<env, arg, res, fpc, menu, loaderVars>>

\* state_init, case 2: pausef(NULL); both arrays are released; return -1;
InitMismatch ==
    /\ fsm.pc = "init_got"
    /\ ~MissingOrEmpty(fsm.urls, fsm.repo_names)
    /\ fsm.urls.count # fsm.repo_names.count
    /\ term' = pausef(term)
    /\ heap' = FreeBoth(heap, fsm.urls, fsm.repo_names)
    /\ fsm' = [Returned(fsm, STATE_EXIT) EXCEPT !.path = "init_mismatch"]
    /\ UNCHANGED <<env, arg, res, fpc, menu, loaderVars>>

\* state_init, every repository is there already: the names are printed;
\* pausef(NULL); both arrays are released; return -1;
InitAllCloned ==
    /\ fsm.pc = "init_got"
    /\ ~MissingOrEmpty(fsm.urls, fsm.repo_names)
    /\ fsm.urls.count = fsm.repo_names.count
    /\ term' = pausef(term)
    /\ heap' = FreeBoth(UseArray(heap, fsm.repo_names), fsm.urls, fsm.repo_names)
    /\ fsm' = [Returned(fsm, STATE_EXIT) EXCEPT !.path = "init_all_cloned"]
    /\ UNCHANGED <<env, arg, res, fpc, menu, loaderVars>>

\* state_init, the user declines to clone: get_input_string; both arrays are
\* released; return -1;
InitDeclined ==
    /\ fsm.pc = "init_got"
    /\ ~MissingOrEmpty(fsm.urls, fsm.repo_names)
    /\ fsm.urls.count = fsm.repo_names.count
    /\ term' = get_input_string(term)
    /\ heap' = FreeBoth(UseArray(UseArray(heap, fsm.urls), fsm.repo_names),
                        fsm.urls, fsm.repo_names)
    /\ fsm' = [Returned(fsm, STATE_EXIT) EXCEPT !.path = "init_declined"]
    /\ UNCHANGED <<env, arg, res, fpc, menu, loaderVars>>

\* state_init, the repositories are cloned: get_input_string; git clone for each;
\* pausef(NULL); both arrays are released; return -1;
InitCloned ==
    /\ fsm.pc = "init_got"
    /\ ~MissingOrEmpty(fsm.urls, fsm.repo_names)
    /\ fsm.urls.count = fsm.repo_names.count
    /\ term' = pausef(get_input_string(term))
    /\ heap' = FreeBoth(UseArray(UseArray(heap, fsm.urls), fsm.repo_names),
                        fsm.urls, fsm.repo_names)
    /\ fsm' = [Returned(fsm, STATE_EXIT) EXCEPT !.path = "init_cloned"]
    /\ UNCHANGED <<env, arg, res, fpc, menu, loaderVars>>

\* the number of options of the main menu
option_count == 5

\* state_menu: show_menu("ydjs Git Helper", options, option_count) is called
MenuOpen ==
    /\ fsm.pc = "state_menu"
    /\ menu' = MenuCalled(option_count)
    /\ fsm' = [fsm EXCEPT !.pc = "menu_menu"]
    /\ UNCHANGED <<env, arg, res, fpc, heap, term, loaderVars>>

\* state_menu, case 2: return -1;
MenuExit ==
    /\ fsm.pc = "menu_menu"
    /\ ~menu.active
    /\ menu.ret = 2
    /\ menu' = MenuAtRest
    /\ fsm' = [Returned(fsm, STATE_EXIT) EXCEPT !.path = "menu_exit"]
    /\ UNCHANGED <<env, arg, res, fpc, heap, term, loaderVars>>

\* state_menu, the other cases: action_push, action_fetch, action_commit or
\* action_delete runs and ends after a pausef or a get_input_string; return 3;
MenuAct ==
    /\ fsm.pc = "menu_menu"
    /\ ~menu.active
    /\ menu.ret # 2
    /\ term' = pausef(term)
    /\ menu' = MenuAtRest
    /\ fsm' = [Returned(fsm, STATE_MENU) EXCEPT !.path = "menu_act"]
    /\ UNCHANGED <<env, arg, res, fpc, heap, loaderVars>>

NextMain ==
    \/ MainLoad
    \/ LoadSkip
    \/ LoadSet
    \/ LoadEOF
    \/ LoadReturn
    \/ MainLoop
    \/ MainSwitch
    \/ MainReturn
    \/ StateExit
    \/ StartNoTool
    \/ StartTools
    \/ StartLoad
    \/ StartGetEnv
    \/ StartNoInput
    \/ StartAppendFail
    \/ StartAppend
    \/ StartMismatch
    \/ StartSelect
    \/ MenuKey
    \/ StartChosen
    \/ StartKeep
    \/ CheckRepoAbsent
    \/ CheckRepoPresent
    \/ InitGetEnv
    \/ InitMissing
    \/ InitMismatch
    \/ InitAllCloned
    \/ InitDeclined
    \/ InitCloned
    \/ MenuOpen
    \/ MenuExit
    \/ MenuAct

SpecMain == InitMain /\ [][NextMain]_vars

---------------------------------------------------------------------------
(* expand_vars: what the result must be, stated on spans *)

\* a "${" at i that some later "}" closes
StartsSpan(s, i) ==
    /\ i + 1 <= Len(s)
    /\ s[i] = "$"
    /\ s[i + 1] = "{"
    /\ \E j \in (i + 2)..Len(s) : s[j] = "}"

ValueOf(e, name) == IF name \in DOMAIN e THEN e[name] ELSE <<>>

\* s with every ${NAME} span replaced by the value of NAME, the values left as they are
RECURSIVE SpansReplaced(_, _)
SpansReplaced(s, e) ==
    IF \E i \in 1..Len(s) : StartsSpan(s, i)
    THEN LET i == CHOOSE a \in 1..Len(s) :
                      StartsSpan(s, a) /\ \A b \in 1..(a - 1) : ~StartsSpan(s, b)
             j == CHOOSE c \in (i + 2)..Len(s) :
                      s[c] = "}" /\ \A d \in (i + 2)..(c - 1) : s[d] # "}"
         IN  SubSeq(s, 1, i - 1) \o ValueOf(e, SubSeq(s, i + 2, j - 1))
                 \o SpansReplaced(From(s, j + 1), e)
    ELSE s

\* C4: the result of expand_vars is its input with every ${NAME} span (NAME the
\* text up to the next "}") replaced by the current value of NAME, or by nothing
\* when NAME is not set; a substituted value is not scanned again.
ExpandReplacesSpans ==
    fpc = "expand_vars" => res = SpansReplaced(arg, env)

\* a value that itself holds ${Y} has been substituted and stands literally
ExpandReplacesSpansWitness ==
    /\ fpc = "expand_vars"
    /\ arg = <<"$", "{", "X", "}", "$", "{", "X", "}">>
    /\ getenv(env, NameX) = <<"$", "{", "Y", "}">>
    /\ res = <<"$", "{", "Y", "}", "$", "{", "Y", "}">>

\* C5: a "${" that no later "}" closes is copied literally together with all that
\* follows it, and an input without any "}" comes back unchanged.
ExpandKeepsUnclosed ==
    fpc = "expand_vars" =>
        /\ (\A j \in 1..Len(arg) : arg[j] # "}") => res = arg
        /\ \A i \in 1..Len(arg) :
              ( /\ i + 1 <= Len(arg)
                /\ arg[i] = "$"
                /\ arg[i + 1] = "{"
                /\ \A j \in (i + 2)..Len(arg) : arg[j] # "}" )
              => res = SpansReplaced(SubSeq(arg, 1, i - 1), env) \o From(arg, i)

ExpandKeepsUnclosedWitness ==
    /\ fpc = "expand_vars"
    /\ arg = <<"$", "{", "X", "}", "$", "{", "X">>
    /\ getenv(env, NameX) = <<"v">>
    /\ res = <<"v", "$", "{", "X">>

---------------------------------------------------------------------------
(* parse_value: what the result must be *)

Quotes == {DQ, SQ}

\* the elements of s at the indices in keep, in order
Pick(s, keep) ==
    [k \in 1..Cardinality(keep) |->
        s[CHOOSE i \in keep : Cardinality({m \in keep : m <= i}) = k]]

\* the number of backslashes that stand immediately before i, not before lo
BackslashRun(s, i, lo) ==
    CHOOSE k \in 0..(i - lo) :
        /\ \A m \in (i - k)..(i - 1) : s[m] = BS
        /\ (i - k = lo \/ s[i - k - 1] # BS)

\* i, at or after lo, is escaped: an odd run of backslashes precedes it
Escaped(s, i, lo) == BackslashRun(s, i, lo) % 2 = 1

\* the index of the first non-whitespace character, or Len(s) + 1
FirstNonSpace(s) ==
    CHOOSE p \in 1..(Len(s) + 1) :
        /\ \A m \in 1..(p - 1) : isspace(s[m])
        /\ (p <= Len(s) => ~isspace(s[p]))

\* s without its leading and trailing whitespace
Trimmed(s) ==
    LET ns == {i \in 1..Len(s) : ~isspace(s[i])} IN
    IF ns = {} THEN <<>>
    ELSE SubSeq(s, CHOOSE a \in ns : \A b \in ns : a <= b,
                   CHOOSE a \in ns : \A b \in ns : a >= b)

IsQuoted(s) == FirstNonSpace(s) <= Len(s) /\ s[FirstNonSpace(s)] \in Quotes

\* the text between the opening quote and the next unescaped quote of its kind
\* (or the end), each escaping backslash that has a character after it removed
QuotedText(s) ==
    LET open == FirstNonSpace(s)
        lo == open + 1
        closing == {j \in lo..Len(s) : s[j] = s[open] /\ ~Escaped(s, j, lo)}
        last == IF closing = {} THEN Len(s)
                ELSE (CHOOSE j \in closing : \A c \in closing : j <= c) - 1
        keep == {i \in lo..last :
                    ~(s[i] = BS /\ ~Escaped(s, i, lo) /\ i < Len(s))}
    IN  Pick(s, keep)

\* C6: on a value whose first non-whitespace character is a quote, parse_value
\* returns the text up to the next unescaped quote of that kind (or the end of
\* the input), with every backslash-character pair replaced by the character;
\* a "#" inside is kept, and an unterminated quote still yields a string.
ParseQuotedText ==
    (fpc = "parse_value" /\ IsQuoted(arg)) => res = QuotedText(arg)

\* an escaped quote, then a "#", in a quote that is never closed
ParseQuotedTextWitness ==
    /\ fpc = "parse_value"
    /\ arg = <<SP, DQ, BS, DQ, "#">>
    /\ res = <<DQ, "#">>

\* the text before the first "#", or all of it
BeforeHash(s) ==
    LET hs == {i \in 1..Len(s) : s[i] = "#"} IN
    IF hs = {} THEN s
    ELSE SubSeq(s, 1, (CHOOSE a \in hs : \A b \in hs : a <= b) - 1)

\* C7: on a value that does not start with a quote, parse_value returns the text
\* before the first "#" (all of it when there is none) without its leading and
\* trailing whitespace; a value with neither quote nor "#" comes back trimmed.
ParseUnquotedText ==
    (fpc = "parse_value" /\ ~IsQuoted(arg)) =>
        /\ res = Trimmed(BeforeHash(arg))
        /\ (\A i \in 1..Len(arg) : arg[i] \notin Quotes \cup {"#"})
              => res = Trimmed(arg)

ParseUnquotedTextWitness ==
    /\ fpc = "parse_value"
    /\ arg = <<SP, "a", SP, "#", DQ>>
    /\ res = <<"a">>

---------------------------------------------------------------------------
(* load_dotenv: the file format, stated on the text of a line *)

\* the index of the first c in s; s holds one
FirstIndex(s, c) ==
    CHOOSE i \in 1..Len(s) : s[i] = c /\ \A j \in 1..(i - 1) : s[j] # c

Holds(s, c) == \E i \in 1..Len(s) : s[i] = c

\* sub occurs in s
Contains(s, sub) ==
    \E i \in 1..(Len(s) - Len(sub) + 1) : SubSeq(s, i, i + Len(sub) - 1) = sub

\* the trimmed line without an "export " in front
Statement(line) ==
    LET t == Trimmed(line) IN
    IF Len(t) >= 7 /\ SubSeq(t, 1, 7) = ExportPrefix THEN From(t, 8) ELSE t

\* the key: the trimmed text left of the first "="
KeyOf(line) ==
    LET t == Statement(line) IN Trimmed(SubSeq(t, 1, FirstIndex(t, "=") - 1))

\* the raw value: the text right of the first "="
RawOf(line) ==
    LET t == Statement(line) IN From(t, FirstIndex(t, "=") + 1)

\* a line that sets nothing: blank, a comment, without "=", or without a key
Ignorable(line) ==
    \/ Trimmed(line) = <<>>
    \/ Trimmed(line)[1] = "#"
    \/ ~Holds(Trimmed(line), "=")
    \/ KeyOf(line) = <<>>

\* load_dotenv has returned
LoadReturned == pc = "idle" /\ loads >= 1

\* no allocation, setenv or write has failed during the current call
NoFault == faults = hist.faults0

\* the store the n-th successful setenv of the current call found: each name has
\* the value of the latest earlier setenv of the call, else the value it had
\* when the call began
StoreBefore(n) ==
    LET log == hist.log
        earlier(name) == {m \in 1..(n - 1) : log[m].key = name}
    IN  [name \in DOMAIN hist.env0 \cup {log[m].key : m \in 1..(n - 1)} |->
            IF earlier(name) = {} THEN hist.env0[name]
            ELSE log[CHOOSE m \in earlier(name) :
                        \A k \in earlier(name) : k <= m].value]

\* C2: the value a line installs is its parsed value with each ${NAME} replaced
\* by what the latest earlier line of this load gave NAME, else by what NAME had
\* before the load (nothing if unset); a later line's value is never used.
ExpandsAgainstEarlierLines ==
    \A n \in 1..Len(hist.log) :
        hist.log[n].line > 0 =>
            hist.log[n].value =
                SpansReplaced(parse_value(RawOf(hist.file0[hist.log[n].line])),
                              StoreBefore(n))

\* B is set before the load, set again by line 1 and read by line 2
ExpandsAgainstEarlierLinesWitness ==
    /\ LoadReturned
    /\ hist.file0 = << <<"B", "=", "y">>, <<"A", "=", "$", "{", "B", "}">> >>
    /\ <<"B">> \in DOMAIN hist.env0
    /\ hist.env0[<<"B">>] = <<"w">>
    /\ Len(hist.log) = 2
    /\ <<"A">> \in DOMAIN env
    /\ env[<<"A">>] = <<"y">>

\* the lines of f that set key
LinesFor(f, key) == {i \in 1..Len(f) : ~Ignorable(f[i]) /\ KeyOf(f[i]) = key}

\* C3: every name set during the call has the value of the most recent
\* successful setenv for it; and after a load without failure, a key that
\* several lines of the file set has the value computed from the last of them.
LastWriteWins ==
    /\ \A n \in 1..Len(hist.log) :
          (\A m \in (n + 1)..Len(hist.log) : hist.log[m].key # hist.log[n].key)
          => /\ hist.log[n].key \in DOMAIN env
             /\ env[hist.log[n].key] = hist.log[n].value
    /\ (LoadReturned /\ status = 0 /\ NoFault) =>
          \A i \in 1..Len(hist.file0) :
              ( /\ ~Ignorable(hist.file0[i])
                /\ \A j \in LinesFor(hist.file0, KeyOf(hist.file0[i])) : j <= i )
              => \E n \in 1..Len(hist.log) :
                    /\ hist.log[n].line = i
                    /\ hist.log[n].key = KeyOf(hist.file0[i])
                    /\ KeyOf(hist.file0[i]) \in DOMAIN env
                    /\ env[KeyOf(hist.file0[i])] = hist.log[n].value

\* two lines for A: the second one's value stands
LastWriteWinsWitness ==
    /\ LoadReturned
    /\ status = 0
    /\ NoFault
    /\ hist.file0 = << <<"A", "=", "x">>, <<"A", "=", "$", "{", "B", "}">> >>
    /\ hist.env0 = set_env_var(EmptyEnv, <<"B">>, <<"w">>)
    /\ env[<<"A">>] = <<"w">>

\* C8: a line that is blank, a comment, without "=" or without a key leaves the
\* store and vars_set as they are and does not end the loop: the next line of
\* the file is the next one read.
IgnorableLineSkipped ==
    [][ ( /\ pc = "read"
          /\ lineno < Len(file)
          /\ Ignorable(file[lineno + 1]) )
        => ( /\ env' = env
             /\ vars_set' = vars_set
             /\ file' = file
             /\ status' = status
             /\ pc' = "read"
             /\ lineno' = lineno + 1 ) ]_vars

\* a line without a key was passed over and the line after it was installed
IgnorableLineSkippedWitness ==
    /\ LoadReturned
    /\ hist.file0 = << <<"=", "x">>, <<"A", "=", "x">> >>
    /\ vars_set = 1
    /\ Len(hist.log) = 1
    /\ hist.log[1].line = 2
    /\ env[<<"A">>] = <<"x">>

\* the call read the file to its end, or found none, and set nothing
EndedEmpty == LoadReturned /\ hist.eof /\ vars_set = 0

\* C9 as stated: whenever load ends the file with nothing set on a terminal, the
\* collector has run before load returns.
CollectorAlwaysRuns ==
    (EndedEmpty /\ tty) => hist.collector

\* C9, amended: load then asks its y/N question on stdin, and the collector runs
\* exactly when the answer begins with y or Y; the collector runs in no other call.
CollectorRunsOnYes ==
    /\ (EndedEmpty /\ tty) =>
          /\ hist.asked
          /\ hist.collector <=>
                ( /\ hist.answer # EOF
                  /\ Len(hist.answer) > 0
                  /\ hist.answer[1] \in {"y", "Y"} )
    /\ hist.collector => (hist.eof /\ vars_set = 0 /\ tty /\ hist.asked)

CollectorRunsOnYesWitness ==
    /\ EndedEmpty
    /\ tty
    /\ hist.answer = <<"Y">>
    /\ hist.collector
    /\ status = 0
    /\ added = 1

\* C10: without a terminal, a load that ends the file (or finds none) with
\* nothing set returns 0, has read nothing from stdin, has neither created nor
\* changed the file, and leaves the store as it was.
QuietWithoutTerminal ==
    (EndedEmpty /\ ~tty) =>
        /\ status = 0
        /\ stdin_reads = hist.reads0
        /\ file_exists = hist.exists0
        /\ file = hist.file0
        /\ env = hist.env0
        /\ ~hist.asked
        /\ ~hist.collector

\* a file of two lines that set nothing has been loaded without a terminal
QuietWithoutTerminalWitness ==
    /\ EndedEmpty
    /\ ~tty
    /\ file_exists
    /\ hist.file0 = << <<SP, "#", "c">>, <<"A">> >>
    /\ status = 0

\* every line is blank, a comment or KEY=VALUE with a key
WellFormed(f) ==
    \A i \in 1..Len(f) :
        Ignorable(f[i]) => (Trimmed(f[i]) = <<>> \/ Trimmed(f[i])[1] = "#")

\* the reference ${key}
RefTo(key) == <<"$", "{">> \o key \o <<"}">>

\* no line's parsed value refers to a key that the same or a later line sets
NoForwardRef(f) ==
    \A i \in 1..Len(f) : \A j \in i..Len(f) :
        (~Ignorable(f[i]) /\ ~Ignorable(f[j]))
        => ~Contains(parse_value(RawOf(f[i])), RefTo(KeyOf(f[j])))

\* two calls in a row have returned, both without failure and without the collector
LoadedTwice ==
    /\ LoadReturned
    /\ loads = 2
    /\ hist.first_plain
    /\ status = 0
    /\ faults = 0
    /\ ~hist.collector
    /\ file = hist.file0

\* C1 as stated: the second load of a well-formed file leaves the store as the
\* first load left it.
LoadIdempotent ==
    (LoadedTwice /\ WellFormed(file)) => env = hist.snap

\* C1, amended: so it is when no line's value refers to a key that the same or
\* a later line of the file sets.
LoadIdempotentNoForwardRef ==
    (LoadedTwice /\ WellFormed(file) /\ NoForwardRef(file)) => env = hist.snap

\* a file whose second line refers to the key its first line sets
LoadIdempotentNoForwardRefWitness ==
    /\ LoadedTwice
    /\ file = << <<"B", "=", "y">>, <<"A", "=", "$", "{", "B", "}">> >>
    /\ hist.snap[<<"A">>] = <<"y">>
    /\ env[<<"A">>] = <<"y">>

---------------------------------------------------------------------------
(* The statuses of load_dotenv *)

\* the status that stands for each cause of a return
CodeOf(cause) ==
    CASE cause = "parse"  -> -2
      [] cause = "expand" -> -3
      [] cause = "append" -> -4
      [] OTHER            -> 0

\* the call met a line without '=', a failed setenv or a missing file
MetNonFatal ==
    \/ ~hist.exists0
    \/ faults > hist.faults0
    \/ \E i \in 1..Len(hist.file0) : Ignorable(hist.file0[i])

\* C11: load returns 0 on success and a negative status that names the cause of
\* a fatal failure: the failure of parse_value, of expand_vars and of the
\* interactive append have three different negative statuses, and nothing else
\* (an ignored line, a failed setenv, a missing file) gives a status other than 0.
StatusNamesCause ==
    LoadReturned =>
        /\ status = CodeOf(hist.cause)
        /\ (status # 0) <=> (hist.cause \in {"parse", "expand", "append"})
        /\ (status # 0) => status < 0
        /\ (hist.cause = "none" /\ MetNonFatal) => status = 0

\* expand_vars failed on the second line of a file whose first line is ignored
StatusNamesCauseWitness ==
    /\ LoadReturned
    /\ hist.cause = "expand"
    /\ status = -3
    /\ Len(hist.file0) = 2
    /\ Ignorable(hist.file0[1])
    /\ lineno = 2

\* C12: no rollback. When load returns a fatal status while at line i, the
\* store holds, for every name the lines before i installed, the value the
\* latest of them gave it, and for every other name the value it had before
\* the call; each installed entry came from a line before i.
NoRollback ==
    (LoadReturned /\ hist.cause # "none") =>
        /\ status < 0
        /\ env = StoreBefore(Len(hist.log) + 1)
        /\ \A n \in 1..Len(hist.log) : hist.log[n].line < lineno \/ hist.cause = "append"
        /\ \A name \in DOMAIN hist.env0 :
              (\A n \in 1..Len(hist.log) : hist.log[n].key # name)
              => (name \in DOMAIN env /\ env[name] = hist.env0[name])

\* parse_value failed on line 2 after line 1 had installed A
NoRollbackWitness ==
    /\ LoadReturned
    /\ hist.cause = "parse"
    /\ status = -2
    /\ lineno = 2
    /\ hist.file0 = << <<"A", "=", "x">>, <<"B", "=", "y">> >>
    /\ hist.env0 = set_env_var(EmptyEnv, <<"B">>, <<"w">>)
    /\ env[<<"A">>] = <<"x">>
    /\ env[<<"B">>] = <<"w">>

---------------------------------------------------------------------------
(* The file handles *)

\* the handles the current call holds open
OpenHandles == (IF f_open THEN 1 ELSE 0) + (IF fw_open THEN 1 ELSE 0)

\* C13: whenever load_dotenv or interactive_create_entries has returned to its
\* caller, on whichever path, every handle the call opened has been closed
\* once and none is open; at no time has the call closed more than it opened.
HandlesReleased ==
    /\ hist.closes <= hist.opens
    /\ OpenHandles = hist.opens - hist.closes
    /\ f_open => pc = "read"
    /\ fw_open => pc = "collect"
    /\ pc \in {"idle", "return"} =>
          /\ ~f_open
          /\ ~fw_open
          /\ hist.closes = hist.opens

\* the file was read to its end, the collector opened it again and a write failed
HandlesReleasedWitness ==
    /\ LoadReturned
    /\ hist.cause = "append"
    /\ hist.exists0
    /\ hist.opens = 2
    /\ hist.closes = 2
    /\ Len(file) > Len(hist.file0)

---------------------------------------------------------------------------
(* The interactive collector *)

\* the key of a typed line: the trimmed text left of its first "="
InputKey(line) ==
    LET t == Trimmed(line) IN Trimmed(SubSeq(t, 1, FirstIndex(t, "=") - 1))

\* a typed line that is not empty and has no "=" or no key
InvalidInput(line) ==
    /\ line # EOF
    /\ Trimmed(line) # <<>>
    /\ (~Holds(line, "=") \/ InputKey(line) = <<>>)

\* a typed line that is a KEY=VALUE
ValidInput(line) ==
    /\ line # EOF
    /\ Trimmed(line) # <<>>
    /\ Holds(line, "=")
    /\ InputKey(line) # <<>>

\* C14: when the collector reads a non-empty line that has no "=" or whose key
\* is empty, the file, the store and the added count stay as they are, and the
\* collector stays in its loop with the file open, to prompt again.
InvalidInputRejected ==
    [][ ( /\ pc = "collect"
          /\ stdin_reads' = stdin_reads + 1
          /\ InvalidInput(hist'.input) )
        => ( /\ file' = file
             /\ env' = env
             /\ added' = added
             /\ status' = status
             /\ fw_open'
             /\ pc' = "collect" ) ]_vars

\* after the yes, a line was rejected and the line typed after it was accepted
InvalidInputRejectedWitness ==
    /\ pc = "collect"
    /\ stdin_reads = 3
    /\ faults = 0
    /\ hist.input = <<"K", "=", "v">>
    /\ added = 1
    /\ file = << <<"K", "=", "v">> >>

\* C15: for every KEY=VALUE line the collector accepts, the text appended to
\* the file is the line as typed, without its line terminator and with its
\* leading and trailing whitespace, written before the next prompt.
RawLineAppended ==
    (pc = "collect" /\ ValidInput(hist.input)) =>
        /\ Len(file) > Len(hist.file0)
        /\ file[Len(file)] = hist.input

\* the entries of the current call that the collector installed
Installed == {n \in 1..Len(hist.log) : hist.log[n].line = 0}

\* the lines the collector appended to the file
Appended == Len(file) - Len(hist.file0)

\* C16: interactive_create_entries returns a negative value when the file
\* cannot be opened for append or a write fails; otherwise it returns the
\* number of typed lines that were appended to the file and installed in the
\* store: a line whose setenv failed is in the file and is not counted.
CollectorCount ==
    hist.ret # <<>> =>
        /\ hist.collector
        /\ IF hist.cause = "append"
           THEN hist.ret[1] < 0
           ELSE /\ hist.ret[1] = Cardinality(Installed)
                /\ hist.ret[1] <= Appended
                /\ Appended - hist.ret[1] <= faults - hist.faults0
                /\ (faults = hist.faults0) => hist.ret[1] = Appended

\* two lines were appended, the setenv of one failed, and the collector returned 1
CollectorCountWitness ==
    /\ hist.ret = <<1>>
    /\ Appended = 2
    /\ faults = hist.faults0 + 1
    /\ hist.cause = "none"

---------------------------------------------------------------------------
(* The delimiter splitter *)

\* get_env has been called; its arguments and the value it found
SplitCalled == fpc = "get_env"
SplitKey == arg[1]
SplitDelim == arg[2]
HasDelim == SplitCalled /\ SplitDelim # NULL /\ SplitDelim # <<>>
NoDelim == SplitCalled /\ (SplitDelim = NULL \/ SplitDelim = <<>>)
HasValue == SplitCalled /\ SplitKey \in DOMAIN env /\ env[SplitKey] # <<>>

\* the places where s is cut: before it, at each character of d, and after it
Cuts(s, d) == {0, Len(s) + 1} \cup {i \in 1..Len(s) : \E j \in 1..Len(d) : s[i] = d[j]}

\* the partition of s that starts after the cut a
Part(s, d, a) ==
    LET b == CHOOSE c \in Cuts(s, d) : c > a /\ \A x \in Cuts(s, d) : x > a => c <= x
    IN  SubSeq(s, a + 1, b - 1)

\* the cuts whose partition is not empty after trimming
Surviving(s, d) == {a \in Cuts(s, d) \ {Len(s) + 1} : Trimmed(Part(s, d, a)) # <<>>}

\* the trimmed surviving partitions of s, in their order
Tokens(s, d) ==
    [k \in 1..Cardinality(Surviving(s, d)) |->
        Trimmed(Part(s, d, CHOOSE a \in Surviving(s, d) :
                              Cardinality({b \in Surviving(s, d) : b <= a}) = k))]

\* C17 as stated: with a delimiter, the result is the trimmed non-empty
\* partitions of the value in order, the count their number, and a value
\* without a delimiter character gives the one trimmed whole value.
SplitTokens ==
    (HasDelim /\ HasValue) =>
        /\ ~res.null
        /\ res.arr = Tokens(env[SplitKey], SplitDelim)
        /\ res.count = Len(res.arr)
        /\ (Cuts(env[SplitKey], SplitDelim) = {0, Len(env[SplitKey]) + 1})
              => res.arr = <<Trimmed(env[SplitKey])>>

\* C17, amended: a value without a delimiter character gives the one trimmed
\* whole value when it is not all whitespace, and no token at all when it is.
SplitTokensNonBlank ==
    (HasDelim /\ HasValue) =>
        /\ ~res.null
        /\ res.arr = Tokens(env[SplitKey], SplitDelim)
        /\ res.count = Len(res.arr)
        /\ (Cuts(env[SplitKey], SplitDelim) = {0, Len(env[SplitKey]) + 1})
              => IF Trimmed(env[SplitKey]) # <<>>
                 THEN res.arr = <<Trimmed(env[SplitKey])>> /\ res.count = 1
                 ELSE res.arr = <<>> /\ res.count = 0

\* "a; ,b" cut at ";" and ",": the blank partition between them is dropped
SplitTokensNonBlankWitness ==
    /\ HasDelim
    /\ HasValue
    /\ SplitDelim = <<";", ",">>
    /\ env[NameK] = <<"a", ";", SP, ",">>
    /\ res.arr = << <<"a">> >>
    /\ res.count = 1

\* a string that is not empty and neither begins nor ends with whitespace
IsToken(t) == t # <<>> /\ ~isspace(t[1]) /\ ~isspace(t[Len(t)])

\* C18: every token of every result of get_env, whatever the value and the
\* delimiter (empty and absent included), is a non-empty string without
\* leading or trailing whitespace.
TokensNonEmptyTrimmed ==
    (SplitCalled /\ ~res.null) => \A k \in 1..Len(res.arr) : IsToken(res.arr[k])

\* C19: with an empty or absent delimiter and a non-empty value, get_env
\* returns one element, the whole value without its leading and trailing
\* whitespace, and count 1, delimiter characters in the value or not.
WholeValueWithoutDelim ==
    (NoDelim /\ HasValue) =>
        /\ ~res.null
        /\ res.count = 1
        /\ res.arr = <<Trimmed(env[SplitKey])>>

\* " a;b" with an empty delimiter is the one element "a;b"
WholeValueWithoutDelimWitness ==
    /\ NoDelim
    /\ HasValue
    /\ SplitDelim = <<>>
    /\ env[NameK] = <<SP, "a", ";", "b">>
    /\ res.arr = << <<"a", ";", "b">> >>
    /\ res.count = 1

---------------------------------------------------------------------------
(* load_dotenv followed by get_env *)

\* the result of the call is made of the value that the last line of the
\* loaded file for the key, parsed and expanded, gives it
Composed ==
    \A n \in 1..Len(hist.log) :
        ( /\ hist.log[n].key = SplitKey
          /\ hist.log[n].line > 0
          /\ \A m \in (n + 1)..Len(hist.log) : hist.log[m].key # SplitKey )
        => LET V == SpansReplaced(parse_value(RawOf(hist.file0[hist.log[n].line])),
                                  StoreBefore(n))
           IN  IF V = <<>>
               THEN res.null /\ res.count = 0
               ELSE /\ ~res.null
                    /\ res.arr = Tokens(V, SplitDelim)
                    /\ res.count = Len(res.arr)

\* C20: load followed by split composes. After load of a file whose last line
\* for the key K has the value V, quoted or not, get_env(K, d) returns the
\* trimmed non-empty d-separated parts of V parsed and expanded.
LoadThenSplit == (LoadReturned /\ SplitCalled) => Composed

\* USERNAMES="A;B" and EMAILS=a@x;b@x give [A, B], of length 2
LoadThenSplitWitness ==
    /\ LoadReturned
    /\ SplitCalled
    /\ hist.file0 = << USERNAMES \o <<"=", DQ, "A", ";", "B", DQ>>,
                       EMAILS \o <<"=", "a", "@", "x", ";", "b", "@", "x">> >>
    /\ SplitKey = USERNAMES
    /\ Len(hist.log) = 2
    /\ res.arr = << <<"A">>, <<"B">> >>
    /\ res.count = 2
    /\ get_env(env, EMAILS, <<";">>).arr = << <<"a", "@", "x">>, <<"b", "@", "x">> >>
    /\ get_env(env, EMAILS, <<";">>).count = 2

---------------------------------------------------------------------------
(* The store and the splitter *)

\* C21: a call of get_env, whatever the name's value and the delimiter and
\* whether it returns an array or NULL, and a call of free_env leave the store
\* as it is; so a call with the arguments of the call before it, with or
\* without a release in between, returns what that call returned.
SplitLeavesStore ==
    [][ (fpc' \in {"get_env", "free_env"}) =>
            /\ env' = env
            /\ (fpc \in {"get_env", "free_env"} /\ fpc' = "get_env" /\ arg' = arg)
                  => res' = res ]_vars

\* "a;b" was split, the array released, and the same call made again
SplitLeavesStoreWitness ==
    /\ fpc = "get_env"
    /\ heap = <<"freed", "live">>
    /\ arg = <<NameK, <<";">> >>
    /\ NameK \in DOMAIN env
    /\ env[NameK] = <<"a", ";", "b">>
    /\ res.arr = << <<"a">>, <<"b">> >>

\* C22: when get_env returns an array with count n, the array holds n strings
\* and then the NULL terminator; however many tokens there are, the tokens
\* stored stay below the allocated capacity, so the terminator is written
\* inside the allocation.
TerminatorInside ==
    (SplitCalled /\ ~res.null) =>
        /\ res.count = Len(res.arr)
        /\ \A k \in 1..Len(res.arr) : res.arr[k] # NULL
        /\ res.count < res.capacity

\* twenty-one tokens: the array has grown twice, from 10 to 20 and to 40
TerminatorInsideWitness ==
    /\ SplitCalled
    /\ ~res.null
    /\ res.count = 21
    /\ res.capacity = 40

---------------------------------------------------------------------------
(* Raw mode *)

\* C25: pausef and get_input_string leave raw mode as they found it: disabled
\* on return when it was disabled at the call, enabled again when it was enabled.
RawModeRestored ==
    fpc \in {"pausef", "get_input_string"} =>
        /\ term.raw_mode_enabled = arg.raw_mode_enabled
        /\ term.termios = arg.termios

---------------------------------------------------------------------------
(* The menu *)

\* C26: in show_menu with count >= 1 the selected index stays within
\* 0..count-1; UP from 0 goes to count-1 and DOWN from count-1 to 0; a key
\* other than UP, DOWN and ENTER leaves the index as it is; and the function
\* returns only on ENTER, with the current index.
MenuKeys ==
    [][ menu.active =>
          /\ menu'.selected \in 0..(menu.count - 1)
          /\ (menu'.press = UpArrow /\ menu.selected = 0)
                => menu'.selected = menu.count - 1
          /\ (menu'.press = DownArrow /\ menu.selected = menu.count - 1)
                => menu'.selected = 0
          /\ (menu'.press \notin {UpArrow, DownArrow, EnterKey})
                => (menu'.selected = menu.selected /\ menu'.active)
          /\ ~menu'.active
                => (menu'.press = EnterKey /\ menu'.ret = menu.selected) ]_vars

---------------------------------------------------------------------------
(* the state functions and the arrays of get_env *)

\* a state function holds arrays it has obtained and not yet returned
HoldsArrays == fsm.pc \in {"start_got", "start_menu", "init_got"}

\* C23: every array state_start or state_init obtained from get_env as non-NULL
\* has been released exactly once when the state function returns, on every
\* return path, and none is read after its release.
ArraysReleased ==
    ~HoldsArrays => \A b \in 1..Len(heap) : heap[b] = "freed"

---------------------------------------------------------------------------
(* the driver loop *)

\* the transitions of the cases of the switch
CaseTransitions ==
    { <<0, 1>>, <<0, -1>>, <<1, 2>>, <<1, 3>>, <<2, -1>>, <<3, 3>>, <<3, -1>>,
      <<-1, -99>> }

\* values of current_state that no case names, the loop's end left out
OtherStates == (-101..-2 \cup 4..101) \ {-99}

\* C24: the loop starts in state 0 and takes only the transitions 0 to 1 or -1,
\* 1 to 2 or 3, 2 to -1, 3 to 3 or -1, -1 to -99, and any other value to -1; it
\* ends exactly when the state is -99, which only state_exit produces, so a run
\* that ends has executed state_exit exactly once, as its last state.
DriverLoop ==
    /\ (fsm.pc # "main" /\ ~fsm.returned) => fsm.current_state = 0
    /\ fsm.returned => <<fsm.from, fsm.current_state>> \in CaseTransitions
    /\ \A v \in OtherStates :
          /\ switch_case(v) = "default"
          /\ switch_default([fsm EXCEPT !.current_state = v]).current_state = -1
    /\ fsm.pc = "done" => fsm.current_state = -99
    /\ fsm.current_state = -99 =>
          /\ fsm.pc \in {"loop", "done"}
          /\ fsm.from = -1
          /\ fsm.path = "exit"
          /\ fsm.exits = 1
    /\ fsm.current_state # -99 => fsm.exits = 0

\* a run that went through state_start, state_check_repo and state_init has ended
DriverLoopWitness ==
    /\ fsm.pc = "done"
    /\ fsm.exits = 1
    /\ fsm.urls.block # 0
    /\ fsm.usernames.block # 0
    /\ ~term.raw_mode_enabled

---------------------------------------------------------------------------
(* expansion of quoted values *)

\* the form of a line of QuoteLines
FormOf(line) == CHOOSE f \in QuoteForms : QuoteLine(f) = line

\* the value of name in the store when entry k of the log was set
StoreAt(k, name) ==
    LET earlier == {j \in 1..(k - 1) : hist.log[j].key = name}
    IN  IF earlier = {} THEN ValueOf(hist.env0, name)
        ELSE hist.log[CHOOSE j \in earlier : \A i \in earlier : i <= j].value

\* C27: the loader expands the parsed value however it was quoted: a ${NAME} in
\* single quotes, in double quotes, or written \${NAME} inside quotes, is
\* replaced by the store value of NAME.
QuotedStillExpanded ==
    \A k \in 1..Len(hist.log) :
        LET ent == hist.log[k]
            line == hist.file0[ent.line]
        IN  line \in QuoteLines =>
                ent.value = FormOf(line).pre \o StoreAt(k, FormOf(line).name)
                                \o FormOf(line).post

\* B='p\${A}q' after A=x has set B to pxq
QuotedStillExpandedWitness ==
    /\ pc = "idle"
    /\ loads = 1
    /\ hist.file0 = << <<"A", "=", "x">>,
                       <<"B", "=", SQ, "p", BS, "$", "{", "A", "}", "q", SQ>> >>
    /\ getenv(env, NameB) = <<"p", "x", "q">>

===========================================================================
